---- MODULE Spec2Model ----
(***************************************************************************)
(* tinylsm: write-ahead log, memtable, sorted tables and the DB engine.    *)
(*                                                                         *)
(* Files are modelled by their bytes (wal.log) or by their decoded block   *)
(* structure (sst_<id>.sst).  32-bit unsigned integers are kept as four    *)
(* little-endian bytes, exactly as they lie in the file, and arithmetic on *)
(* them wraps modulo 2^32.                                                 *)
(***************************************************************************)
EXTENDS Integers, Sequences, FiniteSets, TLC

(***************************************************************************)
(* Bounds of the model.                                                    *)
(***************************************************************************)
\* flush threshold handed to Open (DBOptions.MemtableSize), in bytes
MemtableSize == 11
\* target size of a data block; the 4 KiB of the source scaled to the
\* 10- and 11-byte entries of the model
BlockSize == 11
\* most events in one run: Put and Delete calls that reach the WAL, and
\* faults (failed I/O calls, crashes) the environment injects
MaxEvents == 4
\* most records written by the stand-alone WAL writer
MaxRecords == 3
\* most Put and Delete calls the threads sharing a DB handle make in all
MaxCalls == 3
\* most Put, Delete and SetImmutable calls made on one memtable
MaxMemCalls == 4
MaxFlushes == 2
MaxLockCalls == 4
MaxListCalls == 3
ListLevels == 2
\* most bits of a membership filter (expectedItems * bitsPerKey), and most
\* Add calls on one filter
MaxFilterBits == 3000
MaxAdds == 4

\* keys and values the callers use (byte strings)
Keys == {<<1>>, <<2>>}
Values == {<<>>, <<7>>}

(***************************************************************************)
(* Byte-level helpers.                                                     *)
(***************************************************************************)
RECURSIVE XorBits(_, _, _)
XorBits(a, b, n) ==
    IF n = 0 THEN 0
    ELSE ((a + b) % 2) + 2 * XorBits(a \div 2, b \div 2, n - 1)

\* exclusive or of two 4-bit values, tabulated once
Xor4 == [a \in 0..15 |-> [b \in 0..15 |-> XorBits(a, b, 4)]]

Xor8(a, b) == Xor4[a % 16][b % 16] + 16 * Xor4[a \div 16][b \div 16]

\* exclusive or of two uint32 held as 4 little-endian bytes
Xor32(a, b) == <<Xor8(a[1], b[1]), Xor8(a[2], b[2]), Xor8(a[3], b[3]), Xor8(a[4], b[4])>>

\* binary.LittleEndian encoding of a small non-negative integer as uint32
PutUint32(n) ==
    <<n % 256, (n \div 256) % 256, (n \div 65536) % 256, (n \div 16777216) % 256>>

\* uint32 addition, wrapping modulo 2^32
Add32(a, b) ==
    LET s1 == a[1] + b[1]
        s2 == a[2] + b[2] + (s1 \div 256)
        s3 == a[3] + b[3] + (s2 \div 256)
        s4 == a[4] + b[4] + (s3 \div 256)
    IN  <<s1 % 256, s2 % 256, s3 % 256, s4 % 256>>

\* a > b on uint32
Gt32(a, b) ==
    \/ a[4] > b[4]
    \/ a[4] = b[4] /\ a[3] > b[3]
    \/ a[4] = b[4] /\ a[3] = b[3] /\ a[2] > b[2]
    \/ a[4] = b[4] /\ a[3] = b[3] /\ a[2] = b[2] /\ a[1] > b[1]

\* the integer held by a uint32 that is known to be below 2^31
Uint32(a) == a[1] + 256 * a[2] + 65536 * a[3] + 16777216 * a[4]

\* s[lo+1 .. hi], the Go slice s[lo:hi]
Slice(s, lo, hi) == SubSeq(s, lo + 1, hi)

(***************************************************************************)
(* hash/crc32, IEEE polynomial, table driven.                              *)
(***************************************************************************)
\* 0xEDB88320 little-endian
crcPoly == <<32, 131, 184, 237>>

Shr1(c) ==
    <<(c[1] \div 2) + 128 * (c[2] % 2),
      (c[2] \div 2) + 128 * (c[3] % 2),
      (c[3] \div 2) + 128 * (c[4] % 2),
      (c[4] \div 2)>>

RECURSIVE crcTableEntry(_, _)
crcTableEntry(c, n) ==
    IF n = 0 THEN c
    ELSE crcTableEntry(IF c[1] % 2 = 1 THEN Xor32(crcPoly, Shr1(c)) ELSE Shr1(c), n - 1)

crcTable == [i \in 0..255 |-> crcTableEntry(<<i, 0, 0, 0>>, 8)]

\* one round of the table-driven update loop
crcStep(crc, b) == Xor32(crcTable[Xor8(crc[1], b)], <<crc[2], crc[3], crc[4], 0>>)

\* the update loop over p[lo..hi].  The running crc is looked at before the
\* range is halved, so that it is computed before it is passed on.
RECURSIVE crcUpdate(_, _, _, _)
crcUpdate(crc, p, lo, hi) ==
    IF crc[1] < 0 \/ lo > hi THEN crc
    ELSE IF lo = hi THEN crcStep(crc, p[lo])
    ELSE crcUpdate(crcUpdate(crc, p, lo, (lo + hi) \div 2), p, ((lo + hi) \div 2) + 1, hi)

\* crc32.ChecksumIEEE(p), as 4 little-endian bytes
ChecksumIEEE(p) ==
    Xor32(crcUpdate(<<255, 255, 255, 255>>, p, 1, Len(p)), <<255, 255, 255, 255>>)

(***************************************************************************)
(* Comparator: bytes.Compare.                                              *)
(***************************************************************************)
RECURSIVE Compare(_, _)
Compare(a, b) ==
    IF Len(a) = 0 /\ Len(b) = 0 THEN 0
    ELSE IF Len(a) = 0 THEN -1
    ELSE IF Len(b) = 0 THEN 1
    ELSE IF a[1] < b[1] THEN -1
    ELSE IF a[1] > b[1] THEN 1
    ELSE Compare(Tail(a), Tail(b))

(***************************************************************************)
(* WAL record format and writer.                                           *)
(***************************************************************************)
RecordTypePut == 1
RecordTypeDelete == 2

walMagic == <<222, 173, 190, 239>>

\* the bytes WAL.Write hands to the buffered writer for one record
WALRecordBytes(recordType, key, value) ==
    LET keyLen == PutUint32(Len(key))
        valueLen == PutUint32(Len(value))
        recordLen == PutUint32(1 + 4 + 4 + Len(key) + Len(value) + 4)
        payload == <<recordType>> \o keyLen \o valueLen \o key \o value
    IN  walMagic \o recordLen \o payload \o ChecksumIEEE(payload)

(***************************************************************************)
(* Skip list and memtable.  The list is kept as the ordered map it         *)
(* implements: the entries by key, the running byte total and the count.   *)
(***************************************************************************)
memtableActive == 0
memtableImmutable == 1

\* Entry.Size of an entry with this key and value
EntrySize(key, value) == Len(key) + Len(value) + 1 + 8

NewSkipList == [entries |-> <<>>, size |-> 0, count |-> 0]

\* faulty variant of PutEntry: an update of a key already present is counted
\* as a new entry
PutEntry_CountsUpdate(sl, key, value, deleted) ==
    [entries |-> [k \in (DOMAIN sl.entries) \cup {key} |->
                     IF k = key THEN [Value |-> value, Deleted |-> deleted]
                     ELSE sl.entries[k]],
     size |-> sl.size + EntrySize(key, value),
     count |-> sl.count + 1]

\* SkipList.PutEntry: update in place or link a new node
PutEntry(sl, key, value, deleted) ==
    IF key \in DOMAIN sl.entries
    THEN [sl EXCEPT !.entries[key] = [Value |-> value, Deleted |-> deleted],
                    !.size = sl.size + EntrySize(key, value)
                                     - EntrySize(key, sl.entries[key].Value)]
    ELSE [entries |-> [k \in (DOMAIN sl.entries) \cup {key} |->
                          IF k = key THEN [Value |-> value, Deleted |-> deleted]
                          ELSE sl.entries[k]],
          size |-> sl.size + EntrySize(key, value),
          count |-> sl.count + 1]

SkipListPut(sl, key, value) == PutEntry(sl, key, value, FALSE)

\* faulty variant of SkipListDelete: the node is unlinked instead of marked
SkipListDelete_Unlink(sl, key) ==
    IF key \in DOMAIN sl.entries
    THEN [entries |-> [k \in (DOMAIN sl.entries) \ {key} |-> sl.entries[k]],
          size |-> sl.size - EntrySize(key, sl.entries[key].Value),
          count |-> sl.count - 1]
    ELSE sl

\* a tombstone carries the nil value
SkipListDelete(sl, key) == PutEntry(sl, key, <<>>, TRUE)

\* SkipList.Get: (value, deleted, found)
SkipListGet(sl, key) ==
    IF key \in DOMAIN sl.entries
    THEN [value |-> sl.entries[key].Value, deleted |-> sl.entries[key].Deleted, found |-> TRUE]
    ELSE [value |-> <<>>, deleted |-> FALSE, found |-> FALSE]

(***************************************************************************)
(* The skip list node by node.  Node n is the n-th one linked in; 0 is nil *)
(* in a forward slot and the head as a position.  forward[i + 1] here is   *)
(* forward[i] of the code.                                                 *)
(***************************************************************************)
ListKeys == {<<1>>, <<2>>, <<1, 2>>}

NewLinkedList ==
    [head |-> [i \in 1..ListLevels |-> 0], nodes |-> <<>>, level |-> 1, size |-> 0, count |-> 0]

\* n.forward[i], n = 0 for the head
Forward(l, n, i) == IF n = 0 THEN l.head[i + 1] ELSE l.nodes[n].forward[i + 1]

\* the inner loop of the search at level i, from node current
RECURSIVE Advance(_, _, _, _)
Advance(l, current, i, key) ==
    LET next == Forward(l, current, i)
    IN  IF next # 0 /\ Compare(l.nodes[next].Key, key) < 0
        THEN Advance(l, next, i, key)
        ELSE current

\* the outer loop from level i down to 0: update[0..i], lowest level first
RECURSIVE FindUpdate(_, _, _, _)
FindUpdate(l, current, i, key) ==
    IF i < 0 THEN <<>>
    ELSE LET reached == Advance(l, current, i, key)
         IN  Append(FindUpdate(l, reached, i - 1, key), reached)

\* update[i].forward[i] = newNode for the levels below newLevel
LinkNode(l, update, id, newLevel) ==
    [l EXCEPT !.head = [i \in 1..ListLevels |->
                           IF i <= newLevel /\ update[i] = 0 THEN id ELSE @[i]],
              !.nodes = [n \in 1..Len(@) |->
                           [@[n] EXCEPT !.forward = [i \in 1..Len(@) |->
                               IF i <= newLevel /\ update[i] = n THEN id ELSE @[i]]]]]

\* the second half of PutEntry: a new node of newLevel levels is linked in
LinkNewNode(l, key, value, deleted, newLevel) ==
    LET found == FindUpdate(l, 0, l.level - 1, key)
        update == IF newLevel > l.level
                  THEN found \o [i \in 1..(newLevel - l.level) |-> 0]
                  ELSE found
        id == Len(l.nodes) + 1
        node == [Key |-> key, Value |-> value, Deleted |-> deleted,
                 forward |-> [i \in 1..newLevel |-> Forward(l, update[i], i - 1)]]
    IN  [LinkNode([l EXCEPT !.nodes = Append(@, node)], update, id, newLevel)
            EXCEPT !.level = IF newLevel > @ THEN newLevel ELSE @,
                   !.size = @ + EntrySize(key, value),
                   !.count = @ + 1]

\* faulty variant of LinkedPutEntry: a key already present gets a second node
LinkedPutEntry_NoUpdate(l, key, value, deleted, newLevel) ==
    LinkNewNode(l, key, value, deleted, newLevel)

\* SkipList.PutEntry under sl.mu.Lock(); newLevel is what randomLevel returns
LinkedPutEntry(l, key, value, deleted, newLevel) ==
    LET found == FindUpdate(l, 0, l.level - 1, key)
        current == Forward(l, found[1], 0)
    IN  IF current # 0 /\ Compare(l.nodes[current].Key, key) = 0
        THEN [l EXCEPT !.nodes[current].Value = value,
                       !.nodes[current].Deleted = deleted,
                       !.size = @ + EntrySize(key, value)
                                  - EntrySize(key, l.nodes[current].Value)]
        ELSE LinkNewNode(l, key, value, deleted, newLevel)

\* SkipList.Get under sl.mu.RLock(): (value, deleted, found)
LinkedGet(l, key) ==
    LET current == Forward(l, FindUpdate(l, 0, l.level - 1, key)[1], 0)
    IN  IF current # 0 /\ Compare(l.nodes[current].Key, key) = 0
        THEN [value |-> l.nodes[current].Value, deleted |-> l.nodes[current].Deleted,
              found |-> TRUE]
        ELSE [value |-> <<>>, deleted |-> FALSE, found |-> FALSE]

\* the nodes a SkipListIterator visits from current on: Valid, Next
RECURSIVE IterateFrom(_, _, _)
IterateFrom(l, current, fuel) ==
    IF current = 0 \/ fuel = 0 THEN <<>>
    ELSE <<current>> \o IterateFrom(l, Forward(l, current, 0), fuel - 1)

\* SeekToFirst and the walk to the end
Iterate(l) == IterateFrom(l, Forward(l, 0, 0), Len(l.nodes) + 1)

NewMemtable(maxsize) == [data |-> NewSkipList, state |-> memtableActive, maxsize |-> maxsize]

\* Memtable.Put / Memtable.Delete: the memtable after the call and the error
MemtablePut(m, key, value) ==
    IF m.state # memtableActive THEN [mem |-> m, err |-> "ErrMemtableImmutable"]
    ELSE [mem |-> [m EXCEPT !.data = SkipListPut(m.data, key, value)], err |-> "nil"]

MemtableDelete(m, key) ==
    IF m.state # memtableActive THEN [mem |-> m, err |-> "ErrMemtableImmutable"]
    ELSE [mem |-> [m EXCEPT !.data = SkipListDelete(m.data, key)], err |-> "nil"]

MemtableGet(m, key) == SkipListGet(m.data, key)

\* faulty variant of IsFull: full only above the threshold
IsFull_Above(m) == m.data.size > m.maxsize

\* Memtable.IsFull
IsFull(m) == m.data.size >= m.maxsize

SetImmutable(m) == [m EXCEPT !.state = memtableImmutable]

\* the keys of a skip list in iteration order (ascending by the comparator)
RECURSIVE SortedKeys(_)
SortedKeys(S) ==
    IF S = {} THEN <<>>
    ELSE LET m == CHOOSE k \in S : \A o \in S : Compare(k, o) <= 0
         IN  <<m>> \o SortedKeys(S \ {m})

(***************************************************************************)
(* WAL reader and recovery.  A position is the number of bytes of the file *)
(* consumed so far.                                                        *)
(***************************************************************************)
\* 100*1024*1024 little-endian
maxRecordLen == <<0, 0, 64, 6>>

ReadResult(kind, recordType, key, value, pos) ==
    [kind |-> kind, recordType |-> recordType, key |-> key, value |-> value, pos |-> pos]

\* WALReader.ReadRecord at position pos of file f.  kind is "record", "EOF"
\* (io.EOF), "error" (any other error) or "panic" (slice bounds out of range).
ReadRecord(f, pos) ==
    LET n == Len(f) - pos
    IN
    IF n = 0 THEN ReadResult("EOF", 0, <<>>, <<>>, pos)
    ELSE IF n < 4 THEN ReadResult("error", 0, <<>>, <<>>, Len(f))
    ELSE IF Slice(f, pos, pos + 4) # walMagic THEN ReadResult("error", 0, <<>>, <<>>, pos + 4)
    ELSE IF n = 4 THEN ReadResult("EOF", 0, <<>>, <<>>, pos + 4)
    ELSE IF n < 8 THEN ReadResult("error", 0, <<>>, <<>>, Len(f))
    ELSE
    LET recordLen == Slice(f, pos + 4, pos + 8)
    IN
    IF Gt32(recordLen, maxRecordLen) THEN ReadResult("error", 0, <<>>, <<>>, pos + 8)
    ELSE IF Uint32(recordLen) > 0 /\ n = 8 THEN ReadResult("EOF", 0, <<>>, <<>>, pos + 8)
    ELSE IF n - 8 < Uint32(recordLen) THEN ReadResult("error", 0, <<>>, <<>>, Len(f))
    ELSE
    LET rl == Uint32(recordLen)
        recordData == Slice(f, pos + 8, pos + 8 + rl)
        after == pos + 8 + rl
    IN
    IF rl < 1 + 4 + 4 + 4 THEN ReadResult("error", 0, <<>>, <<>>, after)
    ELSE
    LET recordType == recordData[1]
        keyLen == Slice(recordData, 1, 5)
        valueLen == Slice(recordData, 5, 9)
        expectedLen == Add32(Add32(PutUint32(1 + 4 + 4 + 4), keyLen), valueLen)
        keyStart == PutUint32(9)
        valueStart == Add32(keyStart, keyLen)
        crcStart == Add32(valueStart, valueLen)
    IN
    IF recordLen # expectedLen THEN ReadResult("error", 0, <<>>, <<>>, after)
    ELSE IF \/ Gt32(keyStart, valueStart) \/ Gt32(valueStart, recordLen)
            \/ Gt32(valueStart, crcStart) \/ Gt32(crcStart, recordLen)
            \/ rl - Uint32(crcStart) < 4
         THEN ReadResult("panic", 0, <<>>, <<>>, after)
    ELSE
    LET key == Slice(recordData, 9, Uint32(valueStart))
        value == Slice(recordData, Uint32(valueStart), Uint32(crcStart))
        storedCRC == Slice(recordData, Uint32(crcStart), Uint32(crcStart) + 4)
        crc == ChecksumIEEE(<<recordType>> \o keyLen \o valueLen \o key \o value)
    IN
    IF crc # storedCRC THEN ReadResult("error", 0, <<>>, <<>>, after)
    ELSE ReadResult("record", recordType, key, value, after)

\* faulty variant of ScanToNextRecord: the reader is left behind the magic it
\* has found instead of being put back on its first byte
RECURSIVE ScanToNextRecord_NoSeekBack(_, _, _)
ScanToNextRecord_NoSeekBack(f, pos, matchCount) ==
    IF pos >= Len(f) THEN [found |-> FALSE, pos |-> Len(f)]
    ELSE LET b == f[pos + 1]
         IN  IF b = walMagic[matchCount + 1]
             THEN IF matchCount + 1 = 4
                  THEN [found |-> TRUE, pos |-> pos + 1]
                  ELSE ScanToNextRecord_NoSeekBack(f, pos + 1, matchCount + 1)
             ELSE IF b = walMagic[1]
             THEN ScanToNextRecord_NoSeekBack(f, pos + 1, 1)
             ELSE ScanToNextRecord_NoSeekBack(f, pos + 1, 0)

\* WALReader.ScanToNextRecord from position pos: the 4-state matcher, and on a
\* match the reader is put back on the first byte of the magic
RECURSIVE ScanToNextRecord(_, _, _)
ScanToNextRecord(f, pos, matchCount) ==
    IF pos >= Len(f) THEN [found |-> FALSE, pos |-> Len(f)]
    ELSE LET b == f[pos + 1]
         IN  IF b = walMagic[matchCount + 1]
             THEN IF matchCount + 1 = 4
                  THEN [found |-> TRUE, pos |-> pos - 3]
                  ELSE ScanToNextRecord(f, pos + 1, matchCount + 1)
             ELSE IF b = walMagic[1]
             THEN ScanToNextRecord(f, pos + 1, 1)
             ELSE ScanToNextRecord(f, pos + 1, 0)

RECURSIVE RecoverLoop(_, _, _, _, _, _)
RECURSIVE RecoverStep(_, _, _, _, _, _)

\* one round of the loop of RecoverMemtable, r being what ReadRecord returned
RecoverStep(f, r, data, recovered, corrupted, applied) ==
    LET done(panic) == [data |-> data, recovered |-> recovered, corrupted |-> corrupted,
                        applied |-> applied, panic |-> panic]
    IN
    IF r.kind = "EOF" THEN done(FALSE)
    ELSE IF r.kind = "panic" THEN done(TRUE)
    ELSE IF r.kind = "error"
    THEN LET s == ScanToNextRecord(f, r.pos, 0)
         IN  IF ~s.found
             THEN [data |-> data, recovered |-> recovered, corrupted |-> corrupted + 1,
                   applied |-> applied, panic |-> FALSE]
             ELSE RecoverLoop(f, s.pos, data, recovered, corrupted + 1, applied)
    ELSE IF r.recordType = RecordTypePut
    THEN RecoverLoop(f, r.pos, SkipListPut(data, r.key, r.value), recovered + 1, corrupted,
                     Append(applied, [recordType |-> r.recordType, key |-> r.key, value |-> r.value]))
    ELSE IF r.recordType = RecordTypeDelete
    THEN RecoverLoop(f, r.pos, SkipListDelete(data, r.key), recovered + 1, corrupted,
                     Append(applied, [recordType |-> r.recordType, key |-> r.key, value |-> r.value]))
    ELSE RecoverLoop(f, r.pos, data, recovered, corrupted, applied)

\* the loop of RecoverMemtable
RecoverLoop(f, pos, data, recovered, corrupted, applied) ==
    RecoverStep(f, ReadRecord(f, pos), data, recovered, corrupted, applied)

\* what RecoverMemtable hands back once the loop has ended with r
Recovered(r, maxSize) ==
    [mem |-> [NewMemtable(maxSize) EXCEPT !.data = r.data],
     recovered |-> r.recovered, corrupted |-> r.corrupted,
     applied |-> r.applied, panic |-> r.panic]

\* RecoverMemtable(walPath, maxSize) on a file with bytes f (exists = FALSE
\* when there is no such file): the memtable, the two counters, the records
\* applied in order, and whether the reader faulted
RecoverMemtable(exists, f, maxSize) ==
    IF ~exists
    THEN [mem |-> NewMemtable(maxSize), recovered |-> 0, corrupted |-> 0,
          applied |-> <<>>, panic |-> FALSE]
    ELSE Recovered(RecoverLoop(f, 0, NewSkipList, 0, 0, <<>>), maxSize)

(***************************************************************************)
(* Bloom filter.  bits is the byte array, numBits, numHash and numItems    *)
(* are the struct's counters (small enough here to be kept as integers).   *)
(***************************************************************************)
\* binary.LittleEndian encoding of a small non-negative integer as uint64
PutUint64(n) == PutUint32(n) \o <<0, 0, 0, 0>>

\* stands for every uint64 below 2^48 that exceeds the sizes of the model
Huge == 1073741824

\* stands for every uint64 from 2^48 on: make([]byte, n) with such an n
\* panics (makeslice: len out of range)
Unallocatable == 1073741825

\* the integer held by 8 little-endian bytes
Uint64(b) ==
    IF SubSeq(b, 5, 8) = <<0, 0, 0, 0>> /\ b[4] < 64 THEN Uint32(SubSeq(b, 1, 4))
    ELSE IF b[7] = 0 /\ b[8] = 0 THEN Huge
    ELSE Unallocatable

\* FNV offset basis 0x811C9DC5, little-endian; the FNV prime is 0x01000193
fnvOffset32 == <<197, 157, 28, 129>>

\* h * 0x193 modulo 2^32
Mul403(h) ==
    LET p1 == h[1] * 403
        p2 == h[2] * 403 + (p1 \div 256)
        p3 == h[3] * 403 + (p2 \div 256)
        p4 == h[4] * 403 + (p3 \div 256)
    IN  <<p1 % 256, p2 % 256, p3 % 256, p4 % 256>>

\* h * 0x01000193 modulo 2^32
MulPrime32(h) == Add32(Mul403(h), <<0, 0, 0, h[1]>>)

\* fnv.New32a: xor the byte in, then multiply
RECURSIVE fnv32a(_, _, _)
fnv32a(h, key, i) ==
    IF i > Len(key) THEN h
    ELSE fnv32a(MulPrime32(<<Xor8(h[1], key[i]), h[2], h[3], h[4]>>), key, i + 1)

\* fnv.New32: multiply, then xor the byte in
RECURSIVE fnv32(_, _, _)
fnv32(h, key, i) ==
    IF i > Len(key) THEN h
    ELSE fnv32(Xor32(MulPrime32(h), <<key[i], 0, 0, 0>>), key, i + 1)

\* hash2 made odd
Odd32(h) == IF h[1] % 2 = 0 THEN <<h[1] + 1, h[2], h[3], h[4]>> ELSE h

\* BloomFilter.hash: the two 32-bit hashes of a key
hash(key) ==
    [h1 |-> fnv32a(fnvOffset32, key, 1), h2 |-> Odd32(fnv32(fnvOffset32, key, 1))]

\* a uint32 modulo m
Mod32(h, m) == ((((((h[4] % m) * 256 + h[3]) % m) * 256 + h[2]) % m) * 256 + h[1]) % m

\* (uint64(h1) + uint64(i)*uint64(h2)) % numBits; the sum stays below 2^64
bitIndex(h, i, numBits) == (Mod32(h.h1, numBits) + i * Mod32(h.h2, numBits)) % numBits

\* uint32(float64(bitsPerKey) * math.Ln2): the product truncated
TruncLn2(bitsPerKey) == (bitsPerKey * 693147) \div 1000000

\* NewBloomFilter(expectedItems, bitsPerKey)
NewBloomFilter(expectedItems, bitsPerKey) ==
    LET e == IF expectedItems <= 0 THEN 1 ELSE expectedItems
        b == IF bitsPerKey <= 0 THEN 10 ELSE bitsPerKey
        n == IF e * b < 64 THEN 64 ELSE e * b
        numBytes == (n + 7) \div 8
        k == TruncLn2(b)
    IN  [bits |-> [i \in 1..numBytes |-> 0],
         numBits |-> numBytes * 8,
         numHash |-> IF k < 1 THEN 1 ELSE IF k > 30 THEN 30 ELSE k,
         numItems |-> 0]

\* whether bit n of byte b is set
BitOf(b, n) == (b \div (2 ^ n)) % 2 = 1

\* BloomFilter.setBit / getBit
setBit(bits, idx) ==
    [bits EXCEPT ![(idx \div 8) + 1] = IF BitOf(@, idx % 8) THEN @ ELSE @ + 2 ^ (idx % 8)]
getBit(bits, idx) == BitOf(bits[(idx \div 8) + 1], idx % 8)

\* the loop of BloomFilter.Add from round i
RECURSIVE setBits(_, _, _, _, _)
setBits(bits, h, i, numHash, numBits) ==
    IF i >= numHash THEN bits
    ELSE setBits(setBit(bits, bitIndex(h, i, numBits)), h, i + 1, numHash, numBits)

\* BloomFilter.Add
BloomAdd(f, key) ==
    [f EXCEPT !.bits = setBits(f.bits, hash(key), 0, f.numHash, f.numBits),
              !.numItems = f.numItems + 1]

\* BloomFilter.MayContain
MayContain(f, key) ==
    \A i \in 0..f.numHash - 1 : getBit(f.bits, bitIndex(hash(key), i, f.numBits))

\* BloomFilter.Encode: [numBits:8][numHash:4][numItems:8][bits...]
Encode(f) == PutUint64(f.numBits) \o PutUint32(f.numHash) \o PutUint64(f.numItems) \o f.bits

NoFilter == [bits |-> <<>>, numBits |-> 0, numHash |-> 0, numItems |-> 0]

\* faulty variant of DecodeBloomFilter: the bit array is allocated but not
\* copied from the data
DecodeBloomFilter_NoCopy(data) ==
    IF Len(data) < 20 THEN [err |-> "ErrCorruptedData", filter |-> NoFilter]
    ELSE LET numBits == Uint64(Slice(data, 0, 8))
             expectedSize == (numBits + 7) \div 8
         IN  IF Len(data) < 20 + expectedSize
             THEN [err |-> "ErrCorruptedData", filter |-> NoFilter]
             ELSE [err |-> "nil",
                   filter |-> [bits |-> [i \in 1..expectedSize |-> 0],
                               numBits |-> numBits,
                               numHash |-> Uint32(Slice(data, 8, 12)),
                               numItems |-> Uint64(Slice(data, 12, 20))]]

\* DecodeBloomFilter(data): the error and the filter
DecodeBloomFilter(data) ==
    IF Len(data) < 20 THEN [err |-> "ErrCorruptedData", filter |-> NoFilter]
    ELSE LET numBits == Uint64(Slice(data, 0, 8))
             expectedSize == (numBits + 7) \div 8
         IN  IF Len(data) < 20 + expectedSize
             THEN [err |-> "ErrCorruptedData", filter |-> NoFilter]
             ELSE [err |-> "nil",
                   filter |-> [bits |-> Slice(data, 20, 20 + expectedSize),
                               numBits |-> numBits,
                               numHash |-> Uint32(Slice(data, 8, 12)),
                               numItems |-> Uint64(Slice(data, 12, 20))]]

(***************************************************************************)
(* Sorted table writer.  A table file is kept as its data blocks (each the *)
(* entries packed into it), its index, and whether the footer was written. *)
(***************************************************************************)
\* bytes of one entry inside a block: [keyLen:4][valueLen:4][deleted:1][key][value]
EncodedSize(e) == 4 + 4 + 1 + Len(e.Key) + Len(e.Value)

RECURSIVE BlockBytes(_, _)
\* bytes of the entries i.. of a block
BlockBytes(block, i) ==
    IF i > Len(block) THEN 0 ELSE EncodedSize(block[i]) + BlockBytes(block, i + 1)

NewSSTableWriter == [blocks |-> <<>>, index |-> <<>>, offset |-> 0, blockBuffer |-> <<>>]

\* SSTableWriter.flushBlock
flushBlock(w) ==
    IF Len(w.blockBuffer) = 0 THEN w
    ELSE [blocks |-> Append(w.blocks, w.blockBuffer),
          index |-> Append(w.index, [FirstKey |-> w.blockBuffer[1].Key,
                                     Offset |-> w.offset,
                                     Size |-> BlockBytes(w.blockBuffer, 1) + 4]),
          offset |-> w.offset + BlockBytes(w.blockBuffer, 1) + 4,
          blockBuffer |-> <<>>]

\* SSTableWriter.Add
SSTableAdd(w, key, value, deleted) ==
    LET w1 == [w EXCEPT !.blockBuffer =
                   Append(w.blockBuffer, [Key |-> key, Value |-> value, Deleted |-> deleted])]
    IN  IF BlockBytes(w1.blockBuffer, 1) >= BlockSize THEN flushBlock(w1) ELSE w1

\* SSTableWriter.Finish: the finished file
Finish(w) ==
    LET w1 == flushBlock(w)
    IN  [blocks |-> w1.blocks, index |-> w1.index, complete |-> TRUE]

\* the loop of FlushMemtableToSSTable over the first n keys in iteration order
RECURSIVE AddEntries(_, _, _, _)
AddEntries(w, data, keys, n) ==
    IF n = 0 THEN w
    ELSE LET k == keys[n]
         IN  SSTableAdd(AddEntries(w, data, keys, n - 1), k,
                        data.entries[k].Value, data.entries[k].Deleted)

\* the temp file FlushMemtableToSSTable has written when Finish returns
FlushedTable(mem) ==
    LET keys == SortedKeys(DOMAIN mem.data.entries)
    IN  Finish(AddEntries(NewSSTableWriter, mem.data, keys, Len(keys)))

\* a temp file left behind before Finish completed: blocks written so far,
\* no index, no footer
PartialTable(mem) ==
    LET keys == SortedKeys(DOMAIN mem.data.entries)
    IN  [blocks |-> AddEntries(NewSSTableWriter, mem.data, keys, Len(keys)).blocks,
         index |-> <<>>, complete |-> FALSE]

(***************************************************************************)
(* Sorted table reader.                                                    *)
(***************************************************************************)
\* sort.Search(n, f) with f(i) == Compare(index[i].FirstKey, key) > 0
RECURSIVE SearchIndex(_, _, _, _)
SearchIndex(index, key, i, j) ==
    IF i >= j THEN i
    ELSE LET h == (i + j) \div 2
         IN  IF ~(Compare(index[h + 1].FirstKey, key) > 0)
             THEN SearchIndex(index, key, h + 1, j)
             ELSE SearchIndex(index, key, i, h)

\* SSTableReader.findBlock: 0-based block number or -1
findBlock(t, key) ==
    IF Len(t.index) = 0 THEN -1
    ELSE LET idx == SearchIndex(t.index, key, 0, Len(t.index))
         IN  IF idx = 0 THEN -1 ELSE idx - 1

NotFoundInTable == [value |-> <<>>, deleted |-> FALSE, found |-> FALSE]

\* the loop of SSTableReader.searchBlock from entry i.  bytes.Reader.Read
\* returns io.EOF when no byte is left to read, also for an empty buffer,
\* and the loop breaks on any read error.
RECURSIVE searchEntries(_, _, _)
searchEntries(block, key, i) ==
    IF i > Len(block) THEN NotFoundInTable
    ELSE LET e == block[i]
             rest == BlockBytes(block, i + 1)
             cmp == Compare(e.Key, key)
         IN  IF Len(e.Key) + Len(e.Value) + rest = 0 THEN NotFoundInTable
             ELSE IF Len(e.Value) + rest = 0 THEN NotFoundInTable
             ELSE IF cmp = 0 THEN [value |-> e.Value, deleted |-> e.Deleted, found |-> TRUE]
             ELSE IF cmp > 0 THEN NotFoundInTable
             ELSE searchEntries(block, key, i + 1)

\* SSTableReader.searchBlock (the block's CRC matches: the file is as written)
searchBlock(t, blockIdx, key) == searchEntries(t.blocks[blockIdx + 1], key, 1)

\* SSTableReader.Get: (value, deleted, found)
SSTableGet(t, key) ==
    LET blockIdx == findBlock(t, key)
    IN  IF blockIdx < 0 THEN NotFoundInTable ELSE searchBlock(t, blockIdx, key)

(***************************************************************************)
(* The table file byte by byte, as SSTableWriter writes it and as          *)
(* SSTableReader and SSTableIterator read it:                              *)
(*   data blocks   [keyLen:4][valueLen:4][deleted:1][key][value]... [crc:4]*)
(*   index         [numEntries:4] then [keyLen:4][key][offset:8][size:8]...*)
(*   filter        Encode of the membership filter, if there is one        *)
(*   footer        [indexOffset:8][indexSize:8][bloomOffset:8][bloomSize:8]*)
(*                 [magic:8]                                               *)
(***************************************************************************)
\* 0x53535461626C6521 little-endian
SSTableMagic == <<33, 101, 108, 98, 97, 84, 83, 83>>

\* the bytes SSTableWriter.Add puts into the block buffer for one entry
EntryBytes(key, value, deleted) ==
    PutUint32(Len(key)) \o PutUint32(Len(value)) \o <<IF deleted THEN 1 ELSE 0>> \o key \o value

\* NewSSTableWriter(path, nil, bitsPerKey); written holds the bytes handed
\* to the file so far
NewWriter(bitsPerKey) ==
    [written |-> <<>>, offset |-> 0, blockBuffer |-> <<>>, index |-> <<>>,
     firstKey |-> <<>>, entryCount |-> 0, totalKeys |-> 0,
     hasFilter |-> FALSE, bloomFilter |-> NoFilter, bitsPerKey |-> bitsPerKey]

\* flushBlock recording the size of a block without the 4 bytes of its CRC
WriterFlushBlock_SizeWithoutCrc(w) ==
    IF w.entryCount = 0 THEN w
    ELSE [w EXCEPT !.index = Append(@, [FirstKey |-> w.firstKey,
                                        Offset |-> w.offset,
                                        Size |-> Len(w.blockBuffer)]),
                   !.written = @ \o w.blockBuffer \o ChecksumIEEE(w.blockBuffer),
                   !.offset = @ + Len(w.blockBuffer) + 4,
                   !.blockBuffer = <<>>,
                   !.firstKey = <<>>,
                   !.entryCount = 0]

\* SSTableWriter.flushBlock on the bytes of the block buffer
WriterFlushBlock(w) ==
    IF w.entryCount = 0 THEN w
    ELSE [w EXCEPT !.index = Append(@, [FirstKey |-> w.firstKey,
                                        Offset |-> w.offset,
                                        Size |-> Len(w.blockBuffer) + 4]),
                   !.written = @ \o w.blockBuffer \o ChecksumIEEE(w.blockBuffer),
                   !.offset = @ + Len(w.blockBuffer) + 4,
                   !.blockBuffer = <<>>,
                   !.firstKey = <<>>,
                   !.entryCount = 0]

\* the filter after Add has put key into it
WriterFilter(w, key) ==
    IF w.bitsPerKey > 0
    THEN BloomAdd(IF w.hasFilter THEN w.bloomFilter
                  ELSE NewBloomFilter(1000, w.bitsPerKey), key)
    ELSE w.bloomFilter

\* SSTableWriter.Add on the bytes
WriterAdd(w, key, value, deleted) ==
    LET w1 == [w EXCEPT !.totalKeys = @ + 1,
                        !.hasFilter = w.bitsPerKey > 0,
                        !.bloomFilter = WriterFilter(w, key),
                        !.firstKey = IF w.entryCount = 0 THEN key ELSE @,
                        !.blockBuffer = @ \o EntryBytes(key, value, deleted),
                        !.entryCount = @ + 1]
    IN  IF Len(w1.blockBuffer) >= BlockSize THEN WriterFlushBlock(w1) ELSE w1

\* the index entries i.. as Finish writes them
RECURSIVE IndexBytes(_, _)
IndexBytes(index, i) ==
    IF i > Len(index) THEN <<>>
    ELSE PutUint32(Len(index[i].FirstKey)) \o index[i].FirstKey
           \o PutUint64(index[i].Offset) \o PutUint64(index[i].Size)
           \o IndexBytes(index, i + 1)

\* what Finish adds to w.offset for the index entries i..
RECURSIVE IndexSize(_, _)
IndexSize(index, i) ==
    IF i > Len(index) THEN 0
    ELSE 4 + Len(index[i].FirstKey) + 8 + 8 + IndexSize(index, i + 1)

\* the bytes Finish writes after the last data block, for the writer w1
\* that flushBlock has left
FinishTail(w1) ==
    LET indexOffset == w1.offset
        indexSize == 4 + IndexSize(w1.index, 1)
        bloomOffset == indexOffset + indexSize
        bloomData == IF w1.hasFilter THEN Encode(w1.bloomFilter) ELSE <<>>
    IN  PutUint32(Len(w1.index)) \o IndexBytes(w1.index, 1) \o bloomData
          \o PutUint64(indexOffset) \o PutUint64(indexSize)
          \o PutUint64(bloomOffset) \o PutUint64(Len(bloomData)) \o SSTableMagic

\* SSTableWriter.Finish: all bytes of the finished file
WriterFinish(w) == WriterFlushBlock(w).written \o FinishTail(WriterFlushBlock(w))

\* a table file in the older layout the fall-back of readFooter parses: the
\* data blocks and the index as above, no filter, and the 24-byte footer
\* [indexOffset:8][indexSize:8][magic:8]
LegacyFinish(w) ==
    LET w1 == WriterFlushBlock(w)
    IN  w1.written \o PutUint32(Len(w1.index)) \o IndexBytes(w1.index, 1)
          \o PutUint64(w1.offset) \o PutUint64(4 + IndexSize(w1.index, 1)) \o SSTableMagic

\* os.File.ReadAt(make([]byte, n), off): an error unless all n bytes are
\* there; the make panics when n cannot be allocated, and an n below 2^48 is
\* taken to be allocated
ReadAt(file, n, off) ==
    IF n = 0 THEN [err |-> "nil", data |-> <<>>]
    ELSE IF n >= Unallocatable THEN [err |-> "panic", data |-> <<>>]
    ELSE IF n >= Huge \/ off >= Huge \/ off + n > Len(file)
    THEN [err |-> "EOF", data |-> <<>>]
    ELSE [err |-> "nil", data |-> Slice(file, off, off + n)]

Zeros(n) == [i \in 1..n |-> 0]

\* bytes.Reader.Read(make([]byte, n)) at position pos: io.EOF when no byte is
\* left, whatever n is; otherwise the bytes that are there, the rest of the
\* buffer staying zero
ReaderRead(data, pos, n) ==
    IF pos >= Len(data) THEN [err |-> "EOF", buf |-> Zeros(n), pos |-> pos]
    ELSE LET got == IF pos + n <= Len(data) THEN n ELSE Len(data) - pos
         IN  [err |-> "nil", buf |-> Slice(data, pos, pos + got) \o Zeros(n - got),
              pos |-> pos + got]

\* binary.Read of an n-byte integer at pos succeeds when n bytes are left
CanRead(data, pos, n) == pos + n <= Len(data)

\* the index entries still to be read by the loop of readIndex
RECURSIVE readIndexEntries(_, _, _, _)
readIndexEntries(data, pos, left, index) ==
    IF left = 0 THEN [err |-> "nil", index |-> index]
    ELSE IF ~CanRead(data, pos, 4) THEN [err |-> "EOF", index |-> <<>>]
    ELSE LET keyLen == Uint32(Slice(data, pos, pos + 4))
             key == ReaderRead(data, pos + 4, keyLen)
         IN  IF key.err # "nil" \/ ~CanRead(data, key.pos, 16)
             THEN [err |-> "EOF", index |-> <<>>]
             ELSE readIndexEntries(data, key.pos + 16, left - 1,
                      Append(index, [FirstKey |-> key.buf,
                                     Offset |-> Uint64(Slice(data, key.pos, key.pos + 8)),
                                     Size |-> Uint64(Slice(data, key.pos + 8, key.pos + 16))]))

\* SSTableReader.readIndex
readIndex(file, indexOffset, indexSize) ==
    LET indexData == ReadAt(file, indexSize, indexOffset)
    IN  IF indexData.err = "panic" THEN [err |-> "panic", index |-> <<>>]
        ELSE IF indexData.err # "nil" \/ ~CanRead(indexData.data, 0, 4)
        THEN [err |-> "EOF", index |-> <<>>]
        ELSE readIndexEntries(indexData.data, 4, Uint32(Slice(indexData.data, 0, 4)), <<>>)

NoReader == [err |-> "not open", size |-> 0, index |-> <<>>,
             hasFilter |-> FALSE, bloomFilter |-> NoFilter]

FailedReader(err) == [NoReader EXCEPT !.err = err]

\* the 40-byte footer has the magic: the filter is read, then the index
readFooter40(file, footer) ==
    LET bloomSize == Uint64(Slice(footer, 24, 32))
        bloomData == ReadAt(file, bloomSize, Uint64(Slice(footer, 16, 24)))
        bf1 == DecodeBloomFilter(bloomData.data)
        idx == readIndex(file, Uint64(Slice(footer, 0, 8)), Uint64(Slice(footer, 8, 16)))
    IN  IF bloomSize > 0 /\ bloomData.err # "nil" THEN FailedReader(bloomData.err)
        ELSE IF bloomSize > 0 /\ bf1.err # "nil" THEN FailedReader("failed to decode bloom filter")
        ELSE IF idx.err # "nil" THEN FailedReader(idx.err)
        ELSE [err |-> "nil", size |-> Len(file), index |-> idx.index,
              hasFilter |-> bloomSize > 0,
              bloomFilter |-> IF bloomSize > 0 THEN bf1.filter ELSE NoFilter]

\* the older 24-byte footer [indexOffset:8][indexSize:8][magic:8]
readFooter24(file) ==
    LET footer == Slice(file, Len(file) - 24, Len(file))
        idx == readIndex(file, Uint64(Slice(footer, 0, 8)), Uint64(Slice(footer, 8, 16)))
    IN  IF Len(file) < 24 THEN FailedReader("SSTable too small")
        ELSE IF Slice(footer, 16, 24) # SSTableMagic
        THEN FailedReader("invalid SSTable: bad magic number")
        ELSE IF idx.err # "nil" THEN FailedReader(idx.err)
        ELSE [err |-> "nil", size |-> Len(file), index |-> idx.index,
              hasFilter |-> FALSE, bloomFilter |-> NoFilter]

\* SSTableReader.readFooter
readFooter(file) ==
    IF Len(file) >= 40 /\ Slice(file, Len(file) - 8, Len(file)) = SSTableMagic
    THEN readFooter40(file, Slice(file, Len(file) - 40, Len(file)))
    ELSE readFooter24(file)

\* OpenSSTable(path, nil) on a file that exists: the reader, or the error
OpenSSTable(file) == readFooter(file)

\* SSTableReader.MayContain
ReaderMayContain(r, key) == IF ~r.hasFilter THEN TRUE ELSE MayContain(r.bloomFilter, key)

\* one entry decoded at pos the way searchBlock and SSTableIterator.Next do:
\* keyLen, valueLen and the deleted byte, then Read into a key buffer and
\* Read into a value buffer; key and value are the buffers made so far
ReadEntry(data, pos) ==
    IF ~CanRead(data, pos, 9)
    THEN [err |-> "EOF", key |-> <<>>, keySet |-> FALSE, value |-> <<>>, valueSet |-> FALSE,
          deleted |-> FALSE, pos |-> Len(data)]
    ELSE LET keyLen == Uint32(Slice(data, pos, pos + 4))
             valueLen == Uint32(Slice(data, pos + 4, pos + 8))
             k == ReaderRead(data, pos + 9, keyLen)
             v == ReaderRead(data, k.pos, valueLen)
         IN  IF k.err # "nil"
             THEN [err |-> "EOF", key |-> k.buf, keySet |-> TRUE, value |-> <<>>,
                   valueSet |-> FALSE, deleted |-> FALSE, pos |-> k.pos]
             ELSE [err |-> v.err, key |-> k.buf, keySet |-> TRUE, value |-> v.buf,
                   valueSet |-> TRUE, deleted |-> data[pos + 9] = 1, pos |-> v.pos]

\* a data block read for its handle: the bytes before the CRC, if all bytes
\* are there and the CRC matches
ReadBlock(file, handle) ==
    LET blockData == ReadAt(file, handle.Size, handle.Offset)
        dataPart == Slice(blockData.data, 0, Len(blockData.data) - 4)
    IN  IF blockData.err # "nil" THEN [ok |-> FALSE, dataPart |-> <<>>]
        ELSE IF ChecksumIEEE(dataPart) # Slice(blockData.data, Len(blockData.data) - 4,
                                               Len(blockData.data))
        THEN [ok |-> FALSE, dataPart |-> <<>>]
        ELSE [ok |-> TRUE, dataPart |-> dataPart]

\* the loop of searchBlock over the bytes of a block, from pos
RECURSIVE searchLoop(_, _, _)
searchLoop(dataPart, pos, key) ==
    IF Len(dataPart) - pos <= 0 THEN NotFoundInTable
    ELSE LET e == ReadEntry(dataPart, pos)
             cmp == Compare(e.key, key)
         IN  IF e.err # "nil" THEN NotFoundInTable
             ELSE IF cmp = 0 THEN [value |-> e.value, deleted |-> e.deleted, found |-> TRUE]
             ELSE IF cmp > 0 THEN NotFoundInTable
             ELSE searchLoop(dataPart, e.pos, key)

\* SSTableReader.searchBlock on the bytes
ReaderSearchBlock(r, file, blockIdx, key) ==
    LET b == ReadBlock(file, r.index[blockIdx + 1])
    IN  IF ~b.ok THEN NotFoundInTable ELSE searchLoop(b.dataPart, 0, key)

\* SSTableReader.Get on the bytes: (value, deleted, found)
ReaderGet(r, file, key) ==
    LET blockIdx == findBlock(r, key)
    IN  IF blockIdx < 0 THEN NotFoundInTable ELSE ReaderSearchBlock(r, file, blockIdx, key)

\* what SSTableReader.Get does on the way to its result: its first statement
\* is the call of findBlock, and searchBlock, which it calls when findBlock
\* returned a block, issues one ReadAt for that block.  Get holds no call of
\* SSTableReader.MayContain.
ReaderGetTrace(r, key) ==
    LET blockIdx == findBlock(r, key)
    IN  [filterChecked |-> FALSE,
         indexSearched |-> TRUE,
         blocksRead |-> IF blockIdx < 0 THEN 0 ELSE 1]

\* SSTableReader.NewIterator
NewIterator ==
    [blockIdx |-> 0, hasReader |-> FALSE, dataPart |-> <<>>, pos |-> 0,
     key |-> <<>>, value |-> <<>>, deleted |-> FALSE, valid |-> FALSE]

\* faulty variant of loadBlock: it.valid is left as it was when the CRC of
\* the block does not match
loadBlock_KeepsValid(it, r, file) ==
    IF it.blockIdx >= Len(r.index) THEN [ok |-> FALSE, it |-> [it EXCEPT !.valid = FALSE]]
    ELSE LET b == ReadBlock(file, r.index[it.blockIdx + 1])
         IN  IF ~b.ok THEN [ok |-> FALSE, it |-> it]
             ELSE [ok |-> TRUE, it |-> [it EXCEPT !.hasReader = TRUE,
                                                  !.dataPart = b.dataPart, !.pos = 0]]

\* SSTableIterator.loadBlock
loadBlock(it, r, file) ==
    IF it.blockIdx >= Len(r.index) THEN [ok |-> FALSE, it |-> [it EXCEPT !.valid = FALSE]]
    ELSE LET b == ReadBlock(file, r.index[it.blockIdx + 1])
         IN  IF ~b.ok THEN [ok |-> FALSE, it |-> [it EXCEPT !.valid = FALSE]]
             ELSE [ok |-> TRUE, it |-> [it EXCEPT !.hasReader = TRUE,
                                                  !.dataPart = b.dataPart, !.pos = 0]]

\* the entry SSTableIterator.Next reads from the block reader of it
NextEntry(it, e) ==
    [it EXCEPT !.pos = e.pos,
               !.key = IF e.keySet THEN e.key ELSE @,
               !.value = IF e.valueSet THEN e.value ELSE @,
               !.deleted = IF e.err = "nil" THEN e.deleted ELSE @,
               !.valid = e.err = "nil"]

\* SSTableIterator.Next
IteratorNext(it, r, file) ==
    IF ~it.hasReader \/ Len(it.dataPart) - it.pos = 0
    THEN LET l == loadBlock([it EXCEPT !.blockIdx = @ + 1], r, file)
         IN  IF ~l.ok THEN l.it ELSE NextEntry(l.it, ReadEntry(l.it.dataPart, l.it.pos))
    ELSE NextEntry(it, ReadEntry(it.dataPart, it.pos))

\* SSTableIterator.SeekToFirst
SeekToFirst(it, r, file) ==
    IteratorNext([it EXCEPT !.blockIdx = -1, !.hasReader = FALSE, !.dataPart = <<>>,
                            !.pos = 0, !.valid = FALSE], r, file)

(***************************************************************************)
(* State.                                                                  *)
(***************************************************************************)
VARIABLES
    phase,   \* "open": a DB handle is in use; "closed": Close has returned;
             \* "down": the process is gone (crashed)
    db,      \* the fields of the DB struct
    disk,    \* the data directory: wal.log, sst_<id>.sst and sst_<id>.sst.tmp
    acked,   \* per key, the result a Get must give by the last acknowledged write
    pend,    \* per key, the results of the writes since then that did not return nil
    last,    \* the last call: operation, what it returned, the flush attempt that failed,
             \* whether it wrote a waiting immutable memtable to a table
    snap,    \* what Get and Stats reported immediately before the last Close
    faults,  \* how many faults the environment has injected
    writes,  \* how many Put and Delete calls have reached the WAL
    wt,      \* a WAL file written and recovered on its own (stand-alone WAL use)
    tb,      \* a table written, reopened and read on its own
    bf,      \* a membership filter used on its own
    mt,      \* a memtable shared by several callers
    th       \* the callers (threads) of a DB handle shared between them

vars == <<phase, db, disk, acked, pend, last, snap, faults, writes, wt, tb, bf, mt, th>>

\* the variables of the engine, and those of each component used on its own
engineVars == <<phase, db, disk, acked, pend, last, snap, faults, writes>>

\* f with key k set to v, and f without key k
MapPut(f, k, v) == [x \in (DOMAIN f) \cup {k} |-> IF x = k THEN v ELSE f[x]]
MapRemove(f, k) == [x \in (DOMAIN f) \ {k} |-> f[x]]

\* a *WAL: whether its buffered writer holds a sticky error or its file is closed
NewWAL == [err |-> FALSE]

\* the DB struct Open builds over an empty directory; readers holds the ids
\* of the tables whose reader has its file open
NewDB ==
    [memtable |-> NewMemtable(MemtableSize), immutable |-> <<>>, wal |-> NewWAL,
     sstables |-> <<>>, nextSSTableID |-> 0, closed |-> FALSE, readers |-> {}]

EmptyDir == [wal |-> <<>>, walExists |-> FALSE, sst |-> <<>>, tmp |-> <<>>]

NotFound == [status |-> "ErrNotFound", value |-> <<>>]
Found(v) == [status |-> "nil", value |-> v]
Closed == [status |-> "ErrClosed", value |-> <<>>]

NoFlush == [failed |-> FALSE, id |-> 0, before |-> <<>>]
NoSnap == [taken |-> FALSE, get |-> <<>>, tables |-> 0]
NoRead == [records |-> <<>>, end |-> "none"]
\* for the writer seen with its buffers: opened and syncMode are set by
\* OpenWAL, buf is the content of the bufio.Writer, file the bytes the OS
\* has, stable how many of them are on stable storage, ackedEnd the length
\* of the file at the last Write that returned nil, call and ret the last
\* call and what it returned
NoWalTest == [file |-> <<>>, written |-> <<>>, damage |-> "none", at |-> 0,
              closed |-> FALSE, recovered |-> FALSE,
              result |-> RecoverMemtable(FALSE, <<>>, 0), read |-> NoRead,
              opened |-> FALSE, syncMode |-> FALSE, buf |-> <<>>, stable |-> 0,
              ackedEnd |-> 0, call |-> "none", ret |-> "none"]

NoGet == [called |-> FALSE, key |-> <<>>, res |-> NotFoundInTable]

\* no table file yet.  added lists the entries given to Add; file is the
\* content of the file on disk, under its final name once Finish and the
\* rename are done; r is the reader OpenSSTable returned and listed tells
\* that loadSSTables put it on the tables list; out lists the entries the
\* loop "for it.SeekToFirst(); it.Valid(); it.Next()" has visited
NoTableTest ==
    [stage |-> "none", w |-> NewWriter(0), added |-> <<>>, file |-> <<>>,
     damage |-> "none", listed |-> FALSE, r |-> NoReader,
     it |-> NewIterator, scan |-> "none", out |-> <<>>, got |-> NoGet]
\* no filter made yet; added lists the keys given to Add, decoded tells
\* whether the filter in use came out of DecodeBloomFilter
NoFilterTest == [made |-> FALSE, f |-> NoFilter, added |-> {}, decoded |-> FALSE]
\* the threads sharing a DB handle
Threads == {1, 2}

NoCall == [kind |-> "none", recordType |-> 0, key |-> <<>>, value |-> <<>>]

NoMemGet == [called |-> FALSE, key |-> <<>>, res |-> NotFoundInTable, frozen |-> FALSE]

\* a new memtable, its mutex m.mu free (mu is the thread holding it, 0 for
\* none), every thread outside a call.  frozen tells that a SetImmutable has
\* returned, returns counts them, atFreeze is the skip list at that first
\* return; late[t] tells that the call of thread t began after it
NoMemtableTest ==
    [m |-> NewMemtable(MemtableSize), mu |-> 0,
     pc |-> [t \in Threads |-> "idle"], op |-> [t \in Threads |-> NoCall],
     ret |-> [t \in Threads |-> "none"], late |-> [t \in Threads |-> FALSE],
     calls |-> 0, frozen |-> FALSE, returns |-> 0, atFreeze |-> NewSkipList,
     got |-> NoMemGet, guards |-> 0, flushes |-> 0, flushed |-> "none",
     list |-> NewLinkedList, abs |-> NewSkipList, ops |-> <<>>]

\* db.mu free, every thread outside a call; order, logged and applied list
\* the writes in the order they took the lock, reached the WAL and reached
\* the memtable; base counts the writes whose records went with a removed WAL
NoThreads ==
    [mu |-> [writer |-> 0, readers |-> {}],
     pc |-> [t \in Threads |-> "idle"],
     op |-> [t \in Threads |-> NoCall],
     ret |-> [t \in Threads |-> "none"],
     got |-> [t \in Threads |-> NotFound],
     order |-> <<>>, logged |-> <<>>, applied |-> <<>>, base |-> 0,
     walmu |-> 0, memmu |-> 0, sl |-> [writer |-> 0, readers |-> {}],
     immGuards |-> 0, calls |-> 0]

(***************************************************************************)
(* DB.Get.                                                                 *)
(***************************************************************************)
\* the loop over db.sstables from position i
RECURSIVE GetFromTables(_, _, _, _)
GetFromTables(d, dk, key, i) ==
    IF i > Len(d.sstables) THEN NotFound
    ELSE LET r == SSTableGet(dk.sst[d.sstables[i]], key)
         IN  IF r.found THEN (IF r.deleted THEN NotFound ELSE Found(r.value))
             ELSE GetFromTables(d, dk, key, i + 1)

\* faulty variant of DBGet: the closed flag is not consulted
DBGet_NoClosedCheck(d, dk, key) ==
    LET a == MemtableGet(d.memtable, key)
    IN  IF a.found THEN (IF a.deleted THEN NotFound ELSE Found(a.value))
        ELSE LET b == IF d.immutable # <<>> THEN MemtableGet(d.immutable[1], key)
                      ELSE [value |-> <<>>, deleted |-> FALSE, found |-> FALSE]
             IN  IF b.found THEN (IF b.deleted THEN NotFound ELSE Found(b.value))
                 ELSE GetFromTables(d, dk, key, 1)

\* DB.Get on handle d over directory dk
DBGet(d, dk, key) ==
    IF d.closed THEN Closed
    ELSE LET a == MemtableGet(d.memtable, key)
         IN  IF a.found THEN (IF a.deleted THEN NotFound ELSE Found(a.value))
             ELSE LET b == IF d.immutable # <<>> THEN MemtableGet(d.immutable[1], key)
                           ELSE [value |-> <<>>, deleted |-> FALSE, found |-> FALSE]
                  IN  IF b.found THEN (IF b.deleted THEN NotFound ELSE Found(b.value))
                      ELSE GetFromTables(d, dk, key, 1)

\* Get on the handle in use
Get(key) == DBGet(db, disk, key)

(***************************************************************************)
(* Flush.  The environment decides how an attempt ends.                    *)
(***************************************************************************)
FlushFailures == {"create_fails", "add_fails", "finish_fails", "rename_fails", "open_fails"}
FlushCrashes == {"crash_in_write", "crash_before_rename"}
FlushOutcomes == {"ok"} \cup FlushFailures \cup FlushCrashes

FlushResult(d, dk, err, died, fl) ==
    [db |-> d, disk |-> dk, err |-> err, died |-> died, flush |-> fl]

\* FlushMemtableToSSTable(mem, path) for table id: the directory afterwards
FlushMemtableToSSTable(dk, mem, id, o) ==
    CASE o = "create_fails" -> dk
      [] o \in {"add_fails", "finish_fails"} -> [dk EXCEPT !.tmp = MapRemove(dk.tmp, id)]
      [] o = "rename_fails" -> [dk EXCEPT !.tmp = MapPut(dk.tmp, id, FlushedTable(mem))]
      [] o = "crash_in_write" -> [dk EXCEPT !.tmp = MapPut(dk.tmp, id, PartialTable(mem))]
      [] o = "crash_before_rename" -> [dk EXCEPT !.tmp = MapPut(dk.tmp, id, FlushedTable(mem))]
      [] OTHER -> [dk EXCEPT !.tmp = MapRemove(dk.tmp, id),
                             !.sst = MapPut(dk.sst, id, FlushedTable(mem))]

\* DB.doFlush
doFlush(d, dk, o) ==
    IF d.immutable = <<>> THEN FlushResult(d, dk, "nil", FALSE, NoFlush)
    ELSE LET id == d.nextSSTableID
             d1 == [d EXCEPT !.nextSSTableID = id + 1]
             dk1 == FlushMemtableToSSTable(dk, d.immutable[1], id, o)
             fl == [failed |-> TRUE, id |-> id, before |-> d.sstables]
         IN  IF o \in FlushCrashes THEN FlushResult(d1, dk1, "nil", TRUE, NoFlush)
             ELSE IF o \in FlushFailures \ {"open_fails"}
             THEN FlushResult(d1, dk1, "flush failed", FALSE, fl)
             ELSE IF o = "open_fails"
             THEN FlushResult(d1, dk1, "failed to open new SSTable", FALSE, fl)
             ELSE FlushResult([d1 EXCEPT !.sstables = <<id>> \o d.sstables,
                                         !.readers = @ \cup {id},
                                         !.immutable = <<>>],
                              dk1, "nil", FALSE, NoFlush)

TailOutcomes == {"ok", "remove_fails", "openwal_fails", "crash_after_rename", "crash_after_remove"}

\* the end of triggerFlush, after the flush of the frozen memtable has
\* succeeded: the old WAL is closed and removed and a new one opened
replaceWAL(d, dk, t) ==
    LET removed == [dk EXCEPT !.wal = <<>>, !.walExists = FALSE]
        fresh == [dk EXCEPT !.wal = <<>>, !.walExists = TRUE]
    IN
    CASE t = "crash_after_rename" -> FlushResult(d, dk, "nil", TRUE, NoFlush)
      [] t = "crash_after_remove" -> FlushResult(d, removed, "nil", TRUE, NoFlush)
      [] t = "remove_fails" -> FlushResult([d EXCEPT !.wal = NewWAL], dk, "nil", FALSE, NoFlush)
      [] t = "openwal_fails" ->
            FlushResult([d EXCEPT !.wal = [err |-> TRUE]], removed, "failed to open WAL", FALSE, NoFlush)
      [] OTHER -> FlushResult([d EXCEPT !.wal = NewWAL], fresh, "nil", FALSE, NoFlush)

\* triggerFlush once the frozen memtable has been handed to doFlush, which
\* returned r2
flushedFrozen(r2, t) ==
    IF r2.err # "nil" \/ r2.died THEN r2 ELSE replaceWAL(r2.db, r2.disk, t)

\* faulty variant of freeze: the frozen memtable also stays in the active
\* slot
freeze_NoNewMemtable(d) ==
    [d EXCEPT !.immutable = <<SetImmutable(d.memtable)>>,
              !.memtable = SetImmutable(d.memtable)]

\* the memtable becomes the immutable one and a new active memtable is made
freeze(d) ==
    [d EXCEPT !.immutable = <<SetImmutable(d.memtable)>>,
              !.memtable = NewMemtable(MemtableSize)]

\* triggerFlush after its first step: stuck tells whether an immutable
\* memtable was waiting, r1 is what doFlush returned for it
flushFrozen(stuck, r1, o2, t) ==
    IF stuck /\ (r1.err # "nil" \/ r1.died) THEN r1
    ELSE flushedFrozen(doFlush(freeze(r1.db), r1.disk, o2), t)

\* faulty variant of triggerFlush: a waiting immutable memtable is not
\* written first, the memtable frozen now takes its place in the slot
triggerFlush_NoRetry(d, dk, o1, o2, t) ==
    flushFrozen(FALSE, FlushResult(d, dk, "nil", FALSE, NoFlush), o2, t)

\* DB.triggerFlush.  o1 ends the retry of a stuck immutable memtable, o2 the
\* flush of the memtable frozen now, t the replacement of wal.log.
triggerFlush(d, dk, o1, o2, t) ==
    flushFrozen(d.immutable # <<>>, doFlush(d, dk, o1), o2, t)

(***************************************************************************)
(* DB.Put and DB.Delete.                                                   *)
(***************************************************************************)
\* how many bytes of a record reach the file when the append is cut short
CutPoints == {3, 12}
WalFailures == {<<"short_write", n>> : n \in CutPoints}
WalCrashes == {<<"crash_in_append", n>> : n \in CutPoints} \cup {<<"crash_after_append", 0>>}
WalOk == <<"ok", 0>>

\* the records the callers' writes produce, tabulated once
walRecords ==
    [t \in {RecordTypePut, RecordTypeDelete} |->
        [k \in Keys |-> [v \in Values |-> WALRecordBytes(t, k, v)]]]

\* faulty variant of Write: the memtable is updated before the WAL append,
\* so a failed append leaves the entry behind
Write_ApplyBeforeAppend(d, dk, recordType, key, value, w, o1, o2, t) ==
    LET rec == walRecords[recordType][key][value]
        m == IF recordType = RecordTypePut THEN MemtablePut(d.memtable, key, value)
             ELSE MemtableDelete(d.memtable, key)
        d1 == [d EXCEPT !.memtable = m.mem]
        dk1 == [dk EXCEPT !.wal = dk.wal \o rec]
    IN
    IF d.closed THEN FlushResult(d, dk, "ErrClosed", FALSE, NoFlush)
    ELSE IF d.wal.err THEN FlushResult(d1, dk, "WAL write failed", FALSE, NoFlush)
    ELSE IF w[1] = "short_write"
    THEN FlushResult([d1 EXCEPT !.wal = [err |-> TRUE]],
                     [dk EXCEPT !.wal = dk.wal \o SubSeq(rec, 1, w[2])],
                     "WAL write failed", FALSE, NoFlush)
    ELSE IF w[1] = "crash_in_append"
    THEN FlushResult(d, [dk EXCEPT !.wal = dk.wal \o SubSeq(rec, 1, w[2])], "nil", TRUE, NoFlush)
    ELSE IF w[1] = "crash_after_append" THEN FlushResult(d, dk1, "nil", TRUE, NoFlush)
    ELSE IF m.err # "nil" THEN FlushResult(d, dk1, m.err, FALSE, NoFlush)
    ELSE IF IsFull(d1.memtable) THEN triggerFlush(d1, dk1, o1, o2, t)
    ELSE FlushResult(d1, dk1, "nil", FALSE, NoFlush)

\* the body shared by DB.Put (recordType = RecordTypePut) and DB.Delete
\* (RecordTypeDelete, value nil); w ends the WAL append.
Write(d, dk, recordType, key, value, w, o1, o2, t) ==
    LET rec == walRecords[recordType][key][value]
    IN
    IF d.closed THEN FlushResult(d, dk, "ErrClosed", FALSE, NoFlush)
    ELSE IF d.wal.err THEN FlushResult(d, dk, "WAL write failed", FALSE, NoFlush)
    ELSE IF w[1] = "short_write"
    THEN FlushResult([d EXCEPT !.wal = [err |-> TRUE]],
                     [dk EXCEPT !.wal = dk.wal \o SubSeq(rec, 1, w[2])],
                     "WAL write failed", FALSE, NoFlush)
    ELSE IF w[1] = "crash_in_append"
    THEN FlushResult(d, [dk EXCEPT !.wal = dk.wal \o SubSeq(rec, 1, w[2])], "nil", TRUE, NoFlush)
    ELSE
    LET dk1 == [dk EXCEPT !.wal = dk.wal \o rec]
        m == IF recordType = RecordTypePut THEN MemtablePut(d.memtable, key, value)
             ELSE MemtableDelete(d.memtable, key)
        d1 == [d EXCEPT !.memtable = m.mem]
    IN
    IF w[1] = "crash_after_append" THEN FlushResult(d, dk1, "nil", TRUE, NoFlush)
    ELSE IF m.err # "nil" THEN FlushResult(d, dk1, m.err, FALSE, NoFlush)
    ELSE IF IsFull(d1.memtable) THEN triggerFlush(d1, dk1, o1, o2, t)
    ELSE FlushResult(d1, dk1, "nil", FALSE, NoFlush)

\* whether the write reaches triggerFlush
WouldFlush(d, recordType, key, value) ==
    /\ ~d.closed /\ ~d.wal.err
    /\ IsFull(IF recordType = RecordTypePut THEN MemtablePut(d.memtable, key, value).mem
              ELSE MemtableDelete(d.memtable, key).mem)

\* the result a Get gives once this write is applied
ResultOf(recordType, value) == IF recordType = RecordTypePut THEN Found(value) ELSE NotFound

\* the last acknowledged write of a key, and the result a Get must then give
Ack(op, value) == [op |-> op, value |-> value]
Expect(a) == IF a.op = "Put" THEN Found(a.value) ELSE NotFound

\* the state after a call of Put or Delete that ended with r
Returned(r, recordType, key, value, w, o1, o2, t) ==
    LET crash == IF w[1] \in {"crash_in_append", "crash_after_append"} THEN w[1]
                 ELSE IF o1 \in FlushCrashes THEN o1
                 ELSE IF o2 \in FlushCrashes THEN o2
                 ELSE t
    IN
    /\ db' = r.db
    /\ disk' = r.disk
    /\ phase' = IF r.died THEN "down" ELSE phase
    /\ acked' = IF r.err = "nil" /\ ~r.died
                THEN [acked EXCEPT ![key] = Ack(IF recordType = RecordTypePut THEN "Put" ELSE "Delete", value)]
                ELSE acked
    /\ pend' = IF r.err = "nil" /\ ~r.died THEN [pend EXCEPT ![key] = {}]
               ELSE IF r.err = "ErrClosed" THEN pend
               ELSE [pend EXCEPT ![key] = @ \cup {ResultOf(recordType, value)}]
    /\ writes' = IF db.closed THEN writes ELSE writes + 1
    /\ last' = [op |-> "write", ret |-> IF r.died THEN "crash" ELSE r.err,
                crash |-> IF r.died THEN crash ELSE "none", flush |-> r.flush,
                stuck |-> db.immutable # <<>> /\ r.db.sstables # db.sstables]
    /\ snap' = IF db.closed THEN snap ELSE NoSnap
    /\ faults' = IF <<w, o1, o2, t>> = <<WalOk, "ok", "ok", "ok">> THEN faults ELSE faults + 1
    /\ UNCHANGED <<wt, tb, bf, mt, th>>

\* one call of Put or Delete, with its bookkeeping
WriteCall(recordType, key, value, w, o1, o2, t) ==
    /\ phase \in {"open", "closed"}
    /\ ~db.closed => writes + faults < MaxEvents
    /\ <<w, o1, o2, t>> # <<WalOk, "ok", "ok", "ok">> => writes + faults + 1 < MaxEvents
    /\ Returned(Write(db, disk, recordType, key, value, w, o1, o2, t),
                recordType, key, value, w, o1, o2, t)

\* the environment's choices that matter for this write
WriteChoices(recordType, key, value) ==
    LET full == WouldFlush(db, recordType, key, value)
        O1 == IF full /\ db.immutable # <<>> THEN FlushOutcomes ELSE {"ok"}
        O2 == IF full THEN FlushOutcomes ELSE {"ok"}
        T == IF full THEN TailOutcomes ELSE {"ok"}
    IN  {<<WalOk, o1, o2, t>> : o1 \in O1, o2 \in O2, t \in T}
          \cup (IF db.closed \/ db.wal.err THEN {}
                ELSE {<<w, "ok", "ok", "ok">> : w \in WalFailures \cup WalCrashes})

Canonical(c) ==
    /\ c[2] # "ok" => c[3] = "ok" /\ c[4] = "ok"
    /\ c[3] # "ok" => c[4] = "ok"

Put(key, value) ==
    \E c \in WriteChoices(RecordTypePut, key, value) :
        /\ Canonical(c)
        /\ WriteCall(RecordTypePut, key, value, c[1], c[2], c[3], c[4])

Delete(key) ==
    \E c \in WriteChoices(RecordTypeDelete, key, <<>>) :
        /\ Canonical(c)
        /\ WriteCall(RecordTypeDelete, key, <<>>, c[1], c[2], c[3], c[4])

(***************************************************************************)
(* DB.Close, Open, and a crash of the process between two calls.           *)
(***************************************************************************)
\* the rest of DB.Close once doFlush has returned r: the WAL and the tables
\* are closed and the first error is returned
closeAll(r, o) ==
    LET werr == IF db.wal.err THEN "WAL close failed" ELSE "nil"
        firstErr == IF r.err # "nil" THEN r.err ELSE werr
    IN
    /\ db' = [r.db EXCEPT !.closed = TRUE, !.wal = [err |-> TRUE], !.readers = {}]
    /\ disk' = r.disk
    /\ phase' = IF r.died THEN "down" ELSE "closed"
    /\ last' = [op |-> "Close", ret |-> IF r.died THEN "crash" ELSE firstErr,
                crash |-> IF r.died THEN o ELSE "none", flush |-> r.flush,
                stuck |-> db.immutable # <<>> /\ r.db.sstables # db.sstables]
    /\ snap' = IF r.died THEN NoSnap
               ELSE [taken |-> TRUE, get |-> [k \in Keys |-> Get(k)],
                     tables |-> Len(db.sstables)]

\* DB.Close; o ends the flush of a remaining immutable memtable
Close(o) ==
    /\ phase \in {"open", "closed"}
    /\ db.immutable = <<>> \/ db.closed => o = "ok"
    /\ o # "ok" => writes + faults < MaxEvents
    /\ IF db.closed
       THEN /\ UNCHANGED <<db, disk, phase>>
            /\ last' = [op |-> "Close", ret |-> "nil", crash |-> "none", flush |-> NoFlush,
                         stuck |-> FALSE]
            /\ snap' = snap
       ELSE closeAll(doFlush(db, disk, o), o)
    /\ faults' = IF o = "ok" THEN faults ELSE faults + 1
    /\ UNCHANGED <<acked, pend, writes, wt, tb, bf, mt, th>>

\* faulty variant of Descending: the files are taken oldest first
RECURSIVE Descending_OldestFirst(_)
Descending_OldestFirst(S) ==
    IF S = {} THEN <<>>
    ELSE LET m == CHOOSE x \in S : \A y \in S : x <= y
         IN  <<m>> \o Descending_OldestFirst(S \ {m})

\* the ids of the files sst_*.sst, newest first
RECURSIVE Descending(_)
Descending(S) ==
    IF S = {} THEN <<>>
    ELSE LET m == CHOOSE x \in S : \A y \in S : y <= x
         IN  <<m>> \o Descending(S \ {m})

\* OpenSSTable succeeds on a file whose footer and index can be read
OpenSSTableOk(t) == t.complete

\* file names, as the bytes of their characters: fmt.Sprintf("sst_%06d.sst",
\* id), the temp name path + ".tmp", and wal.log
sstName(id) ==
    <<115, 115, 116, 95>>
      \o [i \in 1..6 |-> 48 + ((id \div (10 ^ (6 - i))) % 10)]
      \o <<46, 115, 115, 116>>
tempName(id) == sstName(id) \o <<46, 116, 109, 112>>
walName == <<119, 97, 108, 46, 108, 111, 103>>

HasPrefix(name, p) == Len(name) >= Len(p) /\ SubSeq(name, 1, Len(p)) = p
HasSuffix(name, p) == Len(name) >= Len(p) /\ SubSeq(name, Len(name) - Len(p) + 1, Len(name)) = p

\* filepath.Match of a file name against "*.tmp" and against "sst_*.sst"
MatchTmp(name) == HasSuffix(name, <<46, 116, 109, 112>>)
MatchSst(name) ==
    /\ Len(name) >= 8
    /\ HasPrefix(name, <<115, 115, 116, 95>>)
    /\ HasSuffix(name, <<46, 115, 115, 116>>)

\* faulty variant of cleanupTempFiles: no file is removed
cleanupTempFiles_Skipped(dk) == dk

\* DB.cleanupTempFiles: every file whose name matches *.tmp is removed
cleanupTempFiles(dk) ==
    [dk EXCEPT !.tmp = [id \in {i \in DOMAIN dk.tmp : ~MatchTmp(tempName(i))} |-> dk.tmp[id]],
               !.sst = [id \in {i \in DOMAIN dk.sst : ~MatchTmp(sstName(i))} |-> dk.sst[id]],
               !.walExists = @ /\ ~MatchTmp(walName)]

\* the ids of the tables whose file names match sst_*.sst
globSSTables(dk) == {i \in DOMAIN dk.sst : MatchSst(sstName(i))}

\* DB.loadSSTables over the sorted file list from position i
RECURSIVE loadSSTables(_, _, _, _)
loadSSTables(dk, files, i, d) ==
    IF i > Len(files) THEN d
    ELSE IF ~OpenSSTableOk(dk.sst[files[i]]) THEN loadSSTables(dk, files, i + 1, d)
    ELSE loadSSTables(dk, files, i + 1,
             [d EXCEPT !.sstables = Append(d.sstables, files[i]),
                       !.readers = @ \cup {files[i]},
                       !.nextSSTableID = IF files[i] >= d.nextSSTableID
                                         THEN files[i] + 1 ELSE d.nextSSTableID])

\* Open after cleanupTempFiles has left directory dk1 and RecoverMemtable
\* has returned rec (or has faulted): the tables are loaded, the WAL opened
opened(dk1, rec) ==
    LET d1 == loadSSTables(dk1, Descending(globSSTables(dk1)), 1, NewDB)
    IN
    /\ IF rec.panic
       THEN /\ phase' = "down"
            /\ db' = [NewDB EXCEPT !.closed = TRUE, !.wal = [err |-> TRUE]]
            /\ disk' = dk1
            /\ last' = [op |-> "Open", ret |-> "panic", crash |-> last.crash, flush |-> NoFlush,
                         stuck |-> FALSE]
       ELSE /\ phase' = "open"
            /\ db' = [d1 EXCEPT !.memtable = rec.mem]
            /\ disk' = [dk1 EXCEPT !.walExists = TRUE]
            /\ last' = [op |-> "Open", ret |-> "nil", crash |-> last.crash, flush |-> NoFlush,
                         stuck |-> FALSE]

\* Open(opts) on the data directory
Open ==
    /\ phase \in {"down", "closed"}
    /\ opened(cleanupTempFiles(disk), RecoverMemtable(disk.walExists, disk.wal, MemtableSize))
    /\ snap' = IF phase = "closed" THEN snap ELSE NoSnap
    /\ UNCHANGED <<acked, pend, faults, writes, wt, tb, bf, mt, th>>

\* the process dies between two calls
Crash ==
    /\ phase = "open"
    /\ writes + faults < MaxEvents
    /\ faults' = faults + 1
    /\ phase' = "down"
    /\ db' = [db EXCEPT !.closed = TRUE, !.wal = [err |-> TRUE], !.readers = {}]
    /\ last' = [op |-> "Crash", ret |-> "crash", crash |-> "idle", flush |-> NoFlush,
                 stuck |-> FALSE]
    /\ snap' = NoSnap
    /\ UNCHANGED <<disk, acked, pend, writes, wt, tb, bf, mt, th>>

Init ==
    /\ phase = "open"
    /\ db = NewDB
    /\ disk = [EmptyDir EXCEPT !.walExists = TRUE]
    /\ acked = [k \in Keys |-> Ack("none", <<>>)]
    /\ pend = [k \in Keys |-> {}]
    /\ last = [op |-> "Open", ret |-> "nil", crash |-> "none", flush |-> NoFlush,
                stuck |-> FALSE]
    /\ snap = NoSnap
    /\ faults = 0
    /\ writes = 0
    /\ wt = NoWalTest
    /\ tb = NoTableTest
    /\ bf = NoFilterTest
    /\ mt = NoMemtableTest
    /\ th = NoThreads

Next ==
    \/ \E key \in Keys, value \in Values : Put(key, value)
    \/ \E key \in Keys : Delete(key)
    \/ \E o \in FlushOutcomes : Close(o)
    \/ Open
    \/ Crash

Spec == Init /\ [][Next]_vars

(***************************************************************************)
(* One DB handle shared by several threads.  Each call is taken through    *)
(* the steps of its code: the check of the closed flag, the acquisition of *)
(* db.mu, the statements under the lock one at a time, the release.  No    *)
(* I/O call fails here.                                                    *)
(***************************************************************************)
WriteCalls ==
    {[kind |-> "write", recordType |-> RecordTypePut, key |-> k, value |-> v] :
        k \in Keys, v \in Values}
      \cup {[kind |-> "write", recordType |-> RecordTypeDelete, key |-> k, value |-> <<>>] :
               k \in Keys}
GetCalls == {[kind |-> "Get", recordType |-> 0, key |-> k, value |-> <<>>] : k \in Keys}

\* a thread enters Put, Delete or Get: db.closed.Load()
CCall(t, c) ==
    /\ th.pc[t] = "idle"
    /\ c.kind = "write" => Len(th.order) + Cardinality({u \in Threads : th.pc[u] = "lock" /\ th.op[u].kind = "write"}) < MaxCalls
    /\ th' = [th EXCEPT !.op[t] = c,
                        !.pc[t] = IF db.closed THEN "idle" ELSE "lock",
                        !.ret[t] = IF db.closed THEN "ErrClosed" ELSE "none"]
    /\ UNCHANGED <<engineVars, wt, tb, bf, mt>>

\* db.mu.Lock() in Put and Delete, db.mu.RLock() in Get
CLock(t) ==
    /\ th.pc[t] = "lock"
    /\ th.mu.writer = 0
    /\ IF th.op[t].kind = "write"
       THEN /\ th.mu.readers = {}
            /\ th' = [th EXCEPT !.mu.writer = t, !.pc[t] = "wal",
                                !.order = Append(@, th.op[t])]
       ELSE th' = [th EXCEPT !.mu.readers = @ \cup {t}, !.pc[t] = "read"]
    /\ UNCHANGED <<engineVars, wt, tb, bf, mt>>

\* db.wal.WritePut / WriteDelete
CAppend(t) ==
    /\ th.pc[t] = "wal"
    /\ IF db.wal.err
       THEN /\ th' = [th EXCEPT !.pc[t] = "unlock", !.ret[t] = "WAL write failed"]
            /\ UNCHANGED disk
       ELSE /\ disk' = [disk EXCEPT !.wal = @ \o walRecords[th.op[t].recordType][th.op[t].key][th.op[t].value]]
            /\ th' = [th EXCEPT !.pc[t] = "mem", !.logged = Append(@, th.op[t])]
    /\ UNCHANGED <<phase, db, acked, pend, last, snap, faults, writes, wt, tb, bf, mt>>

\* the thread's call has got m back from db.memtable.Put / Delete
CApplied(t, m) ==
    /\ db' = [db EXCEPT !.memtable = m.mem]
    /\ th' = IF m.err # "nil" THEN [th EXCEPT !.pc[t] = "unlock", !.ret[t] = m.err]
             ELSE [th EXCEPT !.pc[t] = "full", !.applied = Append(@, th.op[t])]

\* db.memtable.Put / Delete
CApply(t) ==
    /\ th.pc[t] = "mem"
    /\ CApplied(t, IF th.op[t].recordType = RecordTypePut
                   THEN MemtablePut(db.memtable, th.op[t].key, th.op[t].value)
                   ELSE MemtableDelete(db.memtable, th.op[t].key))
    /\ UNCHANGED <<phase, disk, acked, pend, last, snap, faults, writes, wt, tb, bf, mt>>

\* the thread's call has got r back from triggerFlush
CFlushed(t, r) ==
    /\ db' = r.db
    /\ disk' = r.disk
    /\ th' = [th EXCEPT !.pc[t] = "unlock", !.ret[t] = r.err,
                        !.base = IF r.err = "nil" THEN Len(th.logged) ELSE @]

\* if db.memtable.IsFull() { db.triggerFlush() }
CFlush(t) ==
    /\ th.pc[t] = "full"
    /\ IF IsFull(db.memtable)
       THEN CFlushed(t, triggerFlush(db, disk, "ok", "ok", "ok"))
       ELSE /\ th' = [th EXCEPT !.pc[t] = "unlock", !.ret[t] = "nil"]
            /\ UNCHANGED <<db, disk>>
    /\ UNCHANGED <<phase, acked, pend, last, snap, faults, writes, wt, tb, bf, mt>>

\* the body of Get under the read lock
CRead(t) ==
    /\ th.pc[t] = "read"
    /\ th' = [th EXCEPT !.pc[t] = "unlock", !.got[t] = DBGet(db, disk, th.op[t].key),
                        !.ret[t] = "nil"]
    /\ UNCHANGED <<engineVars, wt, tb, bf, mt>>

\* the deferred db.mu.Unlock() / RUnlock(), and the return
CUnlock(t) ==
    /\ th.pc[t] = "unlock"
    /\ th' = [th EXCEPT !.pc[t] = "idle",
                        !.mu.writer = IF @ = t THEN 0 ELSE @,
                        !.mu.readers = @ \ {t}]
    /\ UNCHANGED <<engineVars, wt, tb, bf, mt>>

NextConc ==
    \/ \E t \in Threads, c \in WriteCalls \cup GetCalls : CCall(t, c)
    \/ \E t \in Threads : CLock(t)
    \/ \E t \in Threads : CAppend(t)
    \/ \E t \in Threads : CApply(t)
    \/ \E t \in Threads : CFlush(t)
    \/ \E t \in Threads : CRead(t)
    \/ \E t \in Threads : CUnlock(t)

SpecConc == Init /\ [][NextConc]_vars

(***************************************************************************)
(* The shared handle with Close among the callers.  Close sets the closed  *)
(* flag before it waits for db.mu; a Put, Delete or Get that has read the  *)
(* flag before goes on once it gets the lock.  A table reader Close has    *)
(* closed fails every ReadAt, which searchBlock reports as not found.      *)
(***************************************************************************)
CloseCall == [kind |-> "Close", recordType |-> 0, key |-> <<>>, value |-> <<>>]

\* the calls made next to Close
CallsWithClose ==
    {[kind |-> "write", recordType |-> RecordTypePut, key |-> <<1>>, value |-> <<7>>],
     [kind |-> "write", recordType |-> RecordTypeDelete, key |-> <<1>>, value |-> <<>>],
     [kind |-> "Get", recordType |-> 0, key |-> <<1>>, value |-> <<>>]}

\* the loop of DB.Get over db.sstables from position i, the readers not in
\* d.readers having their files closed
RECURSIVE GetFromOpenTables(_, _, _, _)
GetFromOpenTables(d, dk, key, i) ==
    IF i > Len(d.sstables) THEN NotFound
    ELSE LET r == IF d.sstables[i] \in d.readers THEN SSTableGet(dk.sst[d.sstables[i]], key)
                  ELSE NotFoundInTable
         IN  IF r.found THEN (IF r.deleted THEN NotFound ELSE Found(r.value))
             ELSE GetFromOpenTables(d, dk, key, i + 1)

\* DB.Get from db.mu.RLock() on
GetUnderLock(d, dk, key) ==
    LET a == MemtableGet(d.memtable, key)
    IN  IF a.found THEN (IF a.deleted THEN NotFound ELSE Found(a.value))
        ELSE LET b == IF d.immutable # <<>> THEN MemtableGet(d.immutable[1], key)
                      ELSE NotFoundInTable
             IN  IF b.found THEN (IF b.deleted THEN NotFound ELSE Found(b.value))
                 ELSE GetFromOpenTables(d, dk, key, 1)

\* a thread enters Close: db.closed.Swap(true)
CCloseCall(t) ==
    /\ th.pc[t] = "idle"
    /\ th' = [th EXCEPT !.op[t] = CloseCall,
                        !.pc[t] = IF db.closed THEN "idle" ELSE "lock",
                        !.ret[t] = IF db.closed THEN "nil" ELSE "none"]
    /\ db' = [db EXCEPT !.closed = TRUE]
    /\ UNCHANGED <<phase, disk, acked, pend, last, snap, faults, writes, wt, tb, bf, mt>>

\* db.mu.Lock() in Close
CCloseLock(t) ==
    /\ th.pc[t] = "lock" /\ th.op[t].kind = "Close"
    /\ th.mu.writer = 0 /\ th.mu.readers = {}
    /\ th' = [th EXCEPT !.mu.writer = t, !.pc[t] = "closing"]
    /\ UNCHANGED <<engineVars, wt, tb, bf, mt>>

\* the body of Close under the lock: doFlush on a waiting immutable
\* memtable, wal.Close, sst.Close on every table
CCloseBody(t) ==
    /\ th.pc[t] = "closing"
    /\ db' = [doFlush(db, disk, "ok").db EXCEPT !.wal = [err |-> TRUE], !.readers = {}]
    /\ disk' = doFlush(db, disk, "ok").disk
    /\ th' = [th EXCEPT !.pc[t] = "unlock", !.ret[t] = doFlush(db, disk, "ok").err]
    /\ UNCHANGED <<phase, acked, pend, last, snap, faults, writes, wt, tb, bf, mt>>

\* db.mu.Lock() in Put and Delete, db.mu.RLock() in Get
CLockCall(t) == th.op[t].kind # "Close" /\ CLock(t)

\* the body of Get under the read lock, on a handle that may be closed
CReadOpen(t) ==
    /\ th.pc[t] = "read"
    /\ th' = [th EXCEPT !.pc[t] = "unlock",
                        !.got[t] = GetUnderLock(db, disk, th.op[t].key),
                        !.ret[t] = "nil"]
    /\ UNCHANGED <<engineVars, wt, tb, bf, mt>>

NextClose ==
    \/ \E t \in Threads, c \in CallsWithClose : CCall(t, c)
    \/ \E t \in Threads : CCloseCall(t)
    \/ \E t \in Threads : CLockCall(t)
    \/ \E t \in Threads : CCloseLock(t)
    \/ \E t \in Threads : CCloseBody(t)
    \/ \E t \in Threads : CAppend(t)
    \/ \E t \in Threads : CApply(t)
    \/ \E t \in Threads : CFlush(t)
    \/ \E t \in Threads : CReadOpen(t)
    \/ \E t \in Threads : CUnlock(t)

SpecClose == Init /\ [][NextClose]_vars

(***************************************************************************)
(* The four locks.  db.mu is the engine lock; under it a Put or Delete     *)
(* takes the WAL mutex for the append, then the memtable mutex and inside  *)
(* it the write lock of the skip list; Get and Stats take the read lock of *)
(* the skip list under the read side of db.mu.  A flush runs on the thread  *)
(* that holds db.mu and leaves one read guard per attempt on the skip list *)
(* of the immutable memtable.                                              *)
(***************************************************************************)
StatsCall == [kind |-> "Stats", recordType |-> 0, key |-> <<>>, value |-> <<>>]
LockCalls == CallsWithClose \cup {StatsCall, CloseCall}
LockFlushOutcomes == {"ok", "rename_fails"}

\* faulty variant of ReleaseMu: the read side of db.mu is not given back
ReleaseMu_ReaderKept(mu, t) == [mu EXCEPT !.writer = IF @ = t THEN 0 ELSE @]

\* db.mu.Unlock() / db.mu.RUnlock() by thread t
ReleaseMu(mu, t) == [writer |-> IF mu.writer = t THEN 0 ELSE mu.writer, readers |-> mu.readers \ {t}]

\* the read guards on the skip list of the immutable memtable after
\* triggerFlush, g of them held before, had telling whether one was waiting
GuardsAfterFlush(g, had, o1, o2) ==
    IF had /\ o1 # "ok" THEN g + 1
    ELSE IF o2 # "ok" THEN 1 ELSE 0

\* a thread enters Put, Delete, Get, Stats or Close
LKCall(t, c) ==
    /\ th.pc[t] = "idle"
    /\ th.calls < MaxLockCalls
    /\ th' = [th EXCEPT !.op[t] = c, !.calls = @ + 1,
                        !.pc[t] = IF db.closed /\ c.kind # "Stats" THEN "idle" ELSE "lock",
                        !.ret[t] = IF c.kind = "Stats" \/ ~db.closed THEN "none"
                                   ELSE IF c.kind = "Close" THEN "nil" ELSE "ErrClosed"]
    /\ db' = IF c.kind = "Close" THEN [db EXCEPT !.closed = TRUE] ELSE db
    /\ UNCHANGED <<phase, disk, acked, pend, last, snap, faults, writes, wt, tb, bf, mt>>

\* db.mu.Lock() in Put, Delete and Close, db.mu.RLock() in Get and Stats
LKLock(t) ==
    /\ th.pc[t] = "lock"
    /\ th.mu.writer = 0
    /\ IF th.op[t].kind \in {"write", "Close"}
       THEN /\ th.mu.readers = {}
            /\ th' = [th EXCEPT !.mu.writer = t,
                                !.pc[t] = IF th.op[t].kind = "write" THEN "wal" ELSE "closing"]
       ELSE th' = [th EXCEPT !.mu.readers = @ \cup {t},
                             !.pc[t] = IF th.op[t].kind = "Get" THEN "read" ELSE "stats"]
    /\ UNCHANGED <<engineVars, wt, tb, bf, mt>>

\* w.mu.Lock() in WAL.Write
LKWalLock(t) ==
    /\ th.pc[t] = "wal"
    /\ th.walmu = 0
    /\ th' = [th EXCEPT !.walmu = t, !.pc[t] = "append"]
    /\ UNCHANGED <<engineVars, wt, tb, bf, mt>>

\* the body of WAL.Write and its deferred w.mu.Unlock()
LKAppend(t) ==
    /\ th.pc[t] = "append"
    /\ IF db.wal.err
       THEN /\ th' = [th EXCEPT !.walmu = 0, !.pc[t] = "unlock", !.ret[t] = "WAL write failed"]
            /\ UNCHANGED disk
       ELSE /\ disk' = [disk EXCEPT !.wal = @ \o walRecords[th.op[t].recordType][th.op[t].key][th.op[t].value]]
            /\ th' = [th EXCEPT !.walmu = 0, !.pc[t] = "mem"]
    /\ UNCHANGED <<phase, db, acked, pend, last, snap, faults, writes, wt, tb, bf, mt>>

\* m.mu.Lock() in Memtable.Put / Delete
LKMemLock(t) ==
    /\ th.pc[t] = "mem"
    /\ th.memmu = 0
    /\ th' = [th EXCEPT !.memmu = t, !.pc[t] = "list"]
    /\ UNCHANGED <<engineVars, wt, tb, bf, mt>>

\* sl.mu.Lock() in SkipList.Put / Delete
LKListLock(t) ==
    /\ th.pc[t] = "list"
    /\ th.sl.writer = 0 /\ th.sl.readers = {}
    /\ th' = [th EXCEPT !.sl.writer = t, !.pc[t] = "apply"]
    /\ UNCHANGED <<engineVars, wt, tb, bf, mt>>

\* the insertion, sl.mu.Unlock() and m.mu.Unlock()
LKApply(t) ==
    /\ th.pc[t] = "apply"
    /\ db' = [db EXCEPT !.memtable = IF th.op[t].recordType = RecordTypePut
                                     THEN MemtablePut(@, th.op[t].key, th.op[t].value).mem
                                     ELSE MemtableDelete(@, th.op[t].key).mem]
    /\ th' = [th EXCEPT !.sl.writer = 0, !.memmu = 0, !.pc[t] = "full"]
    /\ UNCHANGED <<phase, disk, acked, pend, last, snap, faults, writes, wt, tb, bf, mt>>

\* the thread's call has got r back from triggerFlush, g read guards left
\* on the skip list of the immutable memtable
LKFlushed(t, r, g) ==
    /\ db' = r.db
    /\ disk' = r.disk
    /\ th' = [th EXCEPT !.pc[t] = "unlock", !.ret[t] = r.err, !.immGuards = g]

\* if db.memtable.IsFull() { db.triggerFlush() }: Size under sl.mu.RLock(),
\* SetImmutable under m.mu, the flush, oldWAL.Close under w.mu
LKFlush(t, o1, o2) ==
    /\ th.pc[t] = "full"
    /\ th.sl.writer = 0
    /\ IF IsFull(db.memtable)
       THEN /\ th.memmu = 0 /\ th.walmu = 0
            /\ LKFlushed(t, triggerFlush(db, disk, o1, o2, "ok"),
                         GuardsAfterFlush(th.immGuards, db.immutable # <<>>, o1, o2))
       ELSE /\ o1 = "ok" /\ o2 = "ok"
            /\ th' = [th EXCEPT !.pc[t] = "unlock", !.ret[t] = "nil"]
            /\ UNCHANGED <<db, disk>>
    /\ UNCHANGED <<phase, acked, pend, last, snap, faults, writes, wt, tb, bf, mt>>

\* sl.mu.RLock() in SkipList.Get on the active memtable
LKListRLock(t) ==
    /\ th.pc[t] = "read"
    /\ th.sl.writer = 0
    /\ th' = [th EXCEPT !.sl.readers = @ \cup {t}, !.pc[t] = "get"]
    /\ UNCHANGED <<engineVars, wt, tb, bf, mt>>

\* the rest of Get: the lookup, sl.mu.RUnlock(), the immutable memtable
\* under the read lock of its own skip list, the tables
LKGet(t) ==
    /\ th.pc[t] = "get"
    /\ th' = [th EXCEPT !.sl.readers = @ \ {t}, !.pc[t] = "unlock",
                        !.got[t] = GetUnderLock(db, disk, th.op[t].key), !.ret[t] = "nil"]
    /\ UNCHANGED <<engineVars, wt, tb, bf, mt>>

\* the body of Stats: Size of both memtables under sl.mu.RLock()
LKStats(t) ==
    /\ th.pc[t] = "stats"
    /\ th.sl.writer = 0
    /\ th' = [th EXCEPT !.pc[t] = "unlock", !.ret[t] = "nil"]
    /\ UNCHANGED <<engineVars, wt, tb, bf, mt>>

\* the thread's Close has got r back from doFlush
LKClosed(t, r, g) ==
    /\ db' = [r.db EXCEPT !.wal = [err |-> TRUE], !.readers = {}]
    /\ disk' = r.disk
    /\ th' = [th EXCEPT !.pc[t] = "unlock", !.ret[t] = r.err, !.immGuards = g]

\* the body of Close: doFlush on a waiting immutable memtable, wal.Close
\* under w.mu, sst.Close on every table
LKClose(t, o) ==
    /\ th.pc[t] = "closing"
    /\ th.walmu = 0
    /\ db.immutable = <<>> => o = "ok"
    /\ LKClosed(t, doFlush(db, disk, o),
                IF db.immutable = <<>> \/ o = "ok" THEN 0 ELSE th.immGuards + 1)
    /\ UNCHANGED <<phase, acked, pend, last, snap, faults, writes, wt, tb, bf, mt>>

\* the deferred db.mu.Unlock() / RUnlock(), and the return
LKUnlock(t) ==
    /\ th.pc[t] = "unlock"
    /\ th' = [th EXCEPT !.pc[t] = "idle", !.mu = ReleaseMu(@, t)]
    /\ UNCHANGED <<engineVars, wt, tb, bf, mt>>

\* the steps a thread takes inside a call, the flush apart
LKStep(t) ==
    \/ LKLock(t)
    \/ LKWalLock(t)
    \/ LKAppend(t)
    \/ LKMemLock(t)
    \/ LKListLock(t)
    \/ LKApply(t)
    \/ LKListRLock(t)
    \/ LKGet(t)
    \/ LKStats(t)
    \/ \E o \in LockFlushOutcomes : LKClose(t, o)
    \/ LKUnlock(t)

\* the flush step of a thread
LKFlushStep(t) == \E o1, o2 \in LockFlushOutcomes : LKFlush(t, o1, o2)

\* ENABLED LKFlushStep(t), read off the guards of LKFlush
LKFlushReady(t) ==
    /\ th.pc[t] = "full"
    /\ th.sl.writer = 0
    /\ IsFull(db.memtable) => th.memmu = 0 /\ th.walmu = 0

NextLock ==
    \/ \E t \in Threads, c \in LockCalls : LKCall(t, c)
    \/ \E t \in Threads : LKLock(t)
    \/ \E t \in Threads : LKWalLock(t)
    \/ \E t \in Threads : LKAppend(t)
    \/ \E t \in Threads : LKMemLock(t)
    \/ \E t \in Threads : LKListLock(t)
    \/ \E t \in Threads : LKApply(t)
    \/ \E t \in Threads, o1 \in LockFlushOutcomes, o2 \in LockFlushOutcomes : LKFlush(t, o1, o2)
    \/ \E t \in Threads : LKListRLock(t)
    \/ \E t \in Threads : LKGet(t)
    \/ \E t \in Threads : LKStats(t)
    \/ \E t \in Threads, o \in LockFlushOutcomes : LKClose(t, o)
    \/ \E t \in Threads : LKUnlock(t)

SpecLock == Init /\ [][NextLock]_vars

\* the scheduler lets every thread inside a call go on
SpecLockFair ==
    /\ SpecLock
    /\ \A t \in Threads : WF_vars(LKStep(t))
    /\ \A t \in Threads : []<>(~LKFlushReady(t)) \/ []<><<LKFlushStep(t)>>_vars

(***************************************************************************)
(* The membership filter used on its own: NewBloomFilter, Add, and Encode  *)
(* followed by DecodeBloomFilter.  A table writer makes its filter with    *)
(* NewBloomFilter(1000, bitsPerKey), adds every key, and Finish writes     *)
(* Encode of it; readFooter hands those bytes to DecodeBloomFilter.        *)
(***************************************************************************)
ExpectedItems == {0, 1, 7, 20, 1000}
BitsPerKeys == {0, 1, 3, 10, 50}
FilterKeys == {<<>>, <<1>>, <<2>>, <<1, 2>>, <<255>>}

BFNew(expectedItems, bitsPerKey) ==
    /\ ~bf.made
    /\ NewBloomFilter(expectedItems, bitsPerKey).numBits <= MaxFilterBits
    /\ bf' = [bf EXCEPT !.made = TRUE, !.f = NewBloomFilter(expectedItems, bitsPerKey)]
    /\ UNCHANGED <<engineVars, wt, tb, mt, th>>

BFAdd(key) ==
    /\ bf.made
    /\ bf.f.numItems < MaxAdds
    /\ bf' = [bf EXCEPT !.f = BloomAdd(bf.f, key), !.added = @ \cup {key}]
    /\ UNCHANGED <<engineVars, wt, tb, mt, th>>

\* the filter is written out with Encode and read back with DecodeBloomFilter
BFEncodeDecode ==
    /\ bf.made /\ ~bf.decoded
    /\ DecodeBloomFilter(Encode(bf.f)).err = "nil"
    /\ bf' = [bf EXCEPT !.f = DecodeBloomFilter(Encode(bf.f)).filter, !.decoded = TRUE]
    /\ UNCHANGED <<engineVars, wt, tb, mt, th>>

NextBloom ==
    \/ \E e \in ExpectedItems, b \in BitsPerKeys : BFNew(e, b)
    \/ \E key \in FilterKeys : BFAdd(key)
    \/ BFEncodeDecode

SpecBloom == Init /\ [][NextBloom]_vars

(***************************************************************************)
(* One table file on its own, the way FlushMemtableToSSTable and the       *)
(* engine use it: written under the temp name with Add in ascending key    *)
(* order, completed by Finish and renamed; a crash at any byte of the      *)
(* write; damage to the finished file while no reader has it open; then    *)
(* loadSSTables opening it, point lookups and a full iteration.            *)
(***************************************************************************)
TableKeys == {<<>>, <<1>>, <<2>>}
LookupKeys == TableKeys \cup {<<3>>}
TableBitsPerKey == {0, 1}
TableMasks == {1, 128}

\* entries a caller can add: a value, or a tombstone (nil value)
TableEntries ==
    [Key : TableKeys, Value : Values, Deleted : {FALSE}]
      \cup [Key : TableKeys, Value : {<<>>}, Deleted : {TRUE}]

\* FlushMemtableToSSTable: NewSSTableWriter on the temp path
TBNew(bitsPerKey) ==
    /\ tb.stage = "none"
    /\ tb' = [tb EXCEPT !.stage = "writing", !.w = NewWriter(bitsPerKey)]
    /\ UNCHANGED <<engineVars, wt, bf, mt, th>>

\* writer.Add, keys strictly ascending
TBAdd(e) ==
    /\ tb.stage = "writing"
    /\ tb.added # <<>> => Compare(tb.added[Len(tb.added)].Key, e.Key) < 0
    /\ tb' = [tb EXCEPT !.w = WriterAdd(tb.w, e.Key, e.Value, e.Deleted),
                        !.added = Append(@, e)]
    /\ UNCHANGED <<engineVars, wt, bf, mt, th>>

\* writer.Finish, then the rename onto the final name
TBFinish ==
    /\ tb.stage = "writing"
    /\ tb' = [tb EXCEPT !.stage = "final", !.file = WriterFinish(tb.w)]
    /\ UNCHANGED <<engineVars, wt, bf, mt, th>>

\* the process dies while the temp file holds the first n bytes of full
TBCrashAt(full, n) ==
    /\ tb.stage = "writing"
    /\ tb' = [tb EXCEPT !.stage = "crashed", !.file = SubSeq(full, 1, n)]
    /\ UNCHANGED <<engineVars, wt, bf, mt, th>>

\* a crash anywhere between NewSSTableWriter and the rename
TBCrash == \E n \in 0..Len(WriterFinish(tb.w)) : TBCrashAt(WriterFinish(tb.w), n)

\* the next Open: cleanupTempFiles removes the temp file, and loadSSTables,
\* which globs sst_*.sst, finds no table
TBCleanup ==
    /\ tb.stage = "crashed"
    /\ tb' = [tb EXCEPT !.stage = "cleaned", !.file = <<>>]
    /\ UNCHANGED <<engineVars, wt, bf, mt, th>>

\* where the data blocks of the finished file end
DataEnd == WriterFlushBlock(tb.w).offset

\* one byte of the finished file is altered, in a data block or in the
\* footer magic
TBFlip(i, mask) ==
    /\ tb.stage = "final" /\ tb.damage = "none"
    /\ i \in (1..DataEnd) \cup ((Len(tb.file) - 7)..Len(tb.file))
    /\ tb' = [tb EXCEPT !.file[i] = Xor8(@, mask), !.damage = "flip"]
    /\ UNCHANGED <<engineVars, wt, bf, mt, th>>

\* the finished file loses its end
TBTruncate(n) ==
    /\ tb.stage = "final" /\ tb.damage = "none"
    /\ n < Len(tb.file)
    /\ tb' = [tb EXCEPT !.file = SubSeq(@, 1, n), !.damage = "cut"]
    /\ UNCHANGED <<engineVars, wt, bf, mt, th>>

\* loadSSTables: OpenSSTable on the file; the reader goes on the tables list
\* unless OpenSSTable returned an error
TBOpen ==
    /\ tb.stage = "final"
    /\ tb' = [tb EXCEPT !.stage = "opened",
                        !.r = OpenSSTable(tb.file),
                        !.listed = OpenSSTable(tb.file).err = "nil"]
    /\ UNCHANGED <<engineVars, wt, bf, mt, th>>

\* reader.Get(key), before the iteration starts
TBGet(key) ==
    /\ tb.listed /\ tb.scan = "none"
    /\ tb' = [tb EXCEPT !.got = [called |-> TRUE, key |-> key,
                                 res |-> ReaderGet(tb.r, tb.file, key)]]
    /\ UNCHANGED <<engineVars, wt, bf, mt, th>>

\* the iterator after SeekToFirst or Next has left it as it
TBVisited(it) ==
    tb' = [tb EXCEPT !.it = it,
                     !.got = NoGet,
                     !.scan = IF it.valid THEN "running" ELSE "done",
                     !.out = IF it.valid
                             THEN Append(@, [Key |-> it.key, Value |-> it.value,
                                             Deleted |-> it.deleted])
                             ELSE @]

\* it := reader.NewIterator(); it.SeekToFirst()
TBSeekToFirst ==
    /\ tb.listed /\ tb.scan = "none"
    /\ TBVisited(SeekToFirst(NewIterator, tb.r, tb.file))
    /\ UNCHANGED <<engineVars, wt, bf, mt, th>>

\* it.Next() while it.Valid()
TBNext ==
    /\ tb.listed /\ tb.scan = "running"
    /\ TBVisited(IteratorNext(tb.it, tb.r, tb.file))
    /\ UNCHANGED <<engineVars, wt, bf, mt, th>>

NextTable ==
    \/ \E b \in TableBitsPerKey : TBNew(b)
    \/ \E e \in TableEntries : TBAdd(e)
    \/ TBFinish
    \/ TBCrash
    \/ TBCleanup
    \/ \E i \in 1..Len(tb.file), mask \in TableMasks : TBFlip(i, mask)
    \/ \E n \in 0..Len(tb.file) : TBTruncate(n)
    \/ TBOpen
    \/ \E key \in LookupKeys : TBGet(key)
    \/ TBSeekToFirst
    \/ TBNext

SpecTable == Init /\ [][NextTable]_vars

(***************************************************************************)
(* A finished table file damaged at its end while the engine is down, then *)
(* in front of loadSSTables.                                               *)
(***************************************************************************)
\* one byte of the 40-byte footer is altered: a byte of the magic, or one of
\* the upper four bytes of an offset or a size
TBFlipFooter(i, mask) ==
    /\ tb.stage = "final" /\ tb.damage = "none"
    /\ i > Len(tb.file) - 40
    /\ i > Len(tb.file) - 8 \/ (i - (Len(tb.file) - 40) - 1) % 8 >= 4
    /\ tb' = [tb EXCEPT !.file[i] = Xor8(@, mask), !.damage = "footer"]
    /\ UNCHANGED <<engineVars, wt, bf, mt, th>>

NextLoad ==
    \/ \E b \in TableBitsPerKey : TBNew(b)
    \/ \E e \in TableEntries : TBAdd(e)
    \/ TBFinish
    \/ \E i \in 1..Len(tb.file), mask \in TableMasks : TBFlipFooter(i, mask)
    \/ \E n \in 0..Len(tb.file) : TBTruncate(n)
    \/ TBOpen

SpecLoad == Init /\ [][NextLoad]_vars

(***************************************************************************)
(* Table files of both layouts in front of OpenSSTable: a file the writer  *)
(* has finished with the 40-byte footer, or a file in the older layout     *)
(* with the 24-byte footer, then opened and looked up.                     *)
(***************************************************************************)
\* a file of the older layout, left by a writer that made no filter
TBFinishLegacy ==
    /\ tb.stage = "writing"
    /\ ~tb.w.hasFilter
    /\ tb' = [tb EXCEPT !.stage = "final", !.file = LegacyFinish(tb.w)]
    /\ UNCHANGED <<engineVars, wt, bf, mt, th>>

NextFooter ==
    \/ \E b \in TableBitsPerKey : TBNew(b)
    \/ \E e \in TableEntries : TBAdd(e)
    \/ TBFinish
    \/ TBFinishLegacy
    \/ TBOpen
    \/ \E key \in LookupKeys : TBGet(key)

SpecFooter == Init /\ [][NextFooter]_vars

(***************************************************************************)
(* One memtable used by several threads: Put, Delete and SetImmutable take *)
(* m.mu, look at or store the state, and release m.mu when they return;    *)
(* Get goes to the skip list without m.mu.                                 *)
(***************************************************************************)
MemCalls ==
    [kind : {"Put"}, recordType : {RecordTypePut}, key : Keys, value : Values]
      \cup [kind : {"Delete"}, recordType : {RecordTypeDelete}, key : Keys, value : {<<>>}]
      \cup [kind : {"SetImmutable"}, recordType : {0}, key : {<<>>}, value : {<<>>}]

\* thread t calls Put, Delete or SetImmutable
MTCall(t, c) ==
    /\ mt.pc[t] = "idle"
    /\ mt.calls < MaxMemCalls
    /\ mt' = [mt EXCEPT !.pc[t] = "lock", !.op[t] = c, !.ret[t] = "none",
                        !.late[t] = mt.frozen, !.calls = @ + 1]
    /\ UNCHANGED <<engineVars, wt, tb, bf, th>>

\* faulty variant of MTLock: the call goes on without m.mu
MTLock_NoMutex(t) ==
    /\ mt.pc[t] = "lock"
    /\ mt' = [mt EXCEPT !.pc[t] = IF mt.op[t].kind = "SetImmutable" THEN "store" ELSE "check"]
    /\ UNCHANGED <<engineVars, wt, tb, bf, th>>

\* m.mu.Lock()
MTLock(t) ==
    /\ mt.pc[t] = "lock"
    /\ mt.mu = 0
    /\ mt' = [mt EXCEPT !.mu = t,
                        !.pc[t] = IF mt.op[t].kind = "SetImmutable" THEN "store" ELSE "check"]
    /\ UNCHANGED <<engineVars, wt, tb, bf, th>>

\* Put / Delete: atomic.LoadInt32(&m.state) != memtableActive
MTCheck(t) ==
    /\ mt.pc[t] = "check"
    /\ IF mt.m.state # memtableActive
       THEN mt' = [mt EXCEPT !.pc[t] = "unlock", !.ret[t] = "ErrMemtableImmutable"]
       ELSE mt' = [mt EXCEPT !.pc[t] = "apply"]
    /\ UNCHANGED <<engineVars, wt, tb, bf, th>>

\* Put / Delete: m.data.Put(key, value) or m.data.Delete(key)
MTApply(t) ==
    /\ mt.pc[t] = "apply"
    /\ mt' = [mt EXCEPT !.m.data = IF mt.op[t].kind = "Put"
                                   THEN SkipListPut(@, mt.op[t].key, mt.op[t].value)
                                   ELSE SkipListDelete(@, mt.op[t].key),
                        !.pc[t] = "unlock", !.ret[t] = "nil"]
    /\ UNCHANGED <<engineVars, wt, tb, bf, th>>

\* SetImmutable: atomic.StoreInt32(&m.state, memtableImmutable)
MTStore(t) ==
    /\ mt.pc[t] = "store"
    /\ mt' = [mt EXCEPT !.m = SetImmutable(@), !.pc[t] = "unlock", !.ret[t] = "nil"]
    /\ UNCHANGED <<engineVars, wt, tb, bf, th>>

\* the deferred m.mu.Unlock(), and the return
MTUnlock(t) ==
    /\ mt.pc[t] = "unlock"
    /\ mt' = [mt EXCEPT !.mu = IF @ = t THEN 0 ELSE @,
                        !.pc[t] = "idle",
                        !.frozen = @ \/ mt.op[t].kind = "SetImmutable",
                        !.returns = IF mt.op[t].kind = "SetImmutable" THEN @ + 1 ELSE @,
                        !.atFreeze = IF ~mt.frozen /\ mt.op[t].kind = "SetImmutable"
                                     THEN mt.m.data ELSE @]
    /\ UNCHANGED <<engineVars, wt, tb, bf, th>>

\* Memtable.Get(key), in either state
MTGet(key) ==
    /\ mt' = [mt EXCEPT !.got = [called |-> TRUE, key |-> key,
                                 res |-> MemtableGet(mt.m, key), frozen |-> mt.frozen]]
    /\ UNCHANGED <<engineVars, wt, tb, bf, th>>

NextMem ==
    \/ \E t \in Threads, c \in MemCalls : MTCall(t, c)
    \/ \E t \in Threads : MTLock(t)
    \/ \E t \in Threads : MTCheck(t)
    \/ \E t \in Threads : MTApply(t)
    \/ \E t \in Threads : MTStore(t)
    \/ \E t \in Threads : MTUnlock(t)
    \/ \E key \in Keys : MTGet(key)

SpecMem == Init /\ [][NextMem]_vars

(***************************************************************************)
(* One memtable and the read guards on its skip list.  NewIterator takes   *)
(* sl.mu.RLock() and only SkipListIterator.Close gives it back; Put and    *)
(* Delete on the skip list wait in sl.mu.Lock() while a guard is held.     *)
(***************************************************************************)
GuardFlushOutcomes == {"ok", "create_fails", "add_fails", "finish_fails", "rename_fails"}

\* Memtable.Put(key, value) or Memtable.Delete(key), run to its return
MGWrite(c) ==
    /\ c.kind \in {"Put", "Delete"}
    /\ mt.calls < MaxMemCalls
    /\ mt.m.state # memtableActive \/ mt.guards = 0
    /\ mt' = [mt EXCEPT !.m = IF c.kind = "Put" THEN MemtablePut(@, c.key, c.value).mem
                               ELSE MemtableDelete(@, c.key).mem,
                        !.calls = @ + 1]
    /\ UNCHANGED <<engineVars, wt, tb, bf, th>>

\* Memtable.SetImmutable()
MGSetImmutable ==
    /\ mt.m.state = memtableActive
    /\ mt' = [mt EXCEPT !.m = SetImmutable(@), !.frozen = TRUE]
    /\ UNCHANGED <<engineVars, wt, tb, bf, th>>

\* FlushMemtableToSSTable(mem, path, bitsPerKey) with outcome o, run to its
\* return: mem.data.NewIterator() once the writer is there, and no Close of
\* the iterator on any path
MGFlush(o) ==
    /\ mt.flushes < MaxFlushes
    /\ o = "add_fails" => mt.m.data.count > 0
    /\ disk' = FlushMemtableToSSTable(disk, mt.m, mt.flushes, o)
    /\ mt' = [mt EXCEPT !.guards = IF o = "create_fails" THEN @ ELSE @ + 1,
                        !.flushes = @ + 1,
                        !.flushed = o]
    /\ UNCHANGED <<phase, db, acked, pend, last, snap, faults, writes, wt, tb, bf, th>>

NextGuard ==
    \/ \E c \in MemCalls : MGWrite(c)
    \/ MGSetImmutable
    \/ \E o \in GuardFlushOutcomes : MGFlush(o)

SpecGuard == Init /\ [][NextGuard]_vars

(***************************************************************************)
(* Put and Delete on one skip list, node by node.  sl.mu makes each call   *)
(* one step.  abs is the same list kept as a map, ops the calls so far.    *)
(***************************************************************************)
\* SkipList.Put(key, value) or, with deleted, SkipList.Delete(key)
SLPutEntry(key, value, deleted, newLevel) ==
    /\ Len(mt.ops) < MaxListCalls
    /\ deleted => value = <<>>
    /\ mt' = [mt EXCEPT !.list = LinkedPutEntry(@, key, value, deleted, newLevel),
                        !.abs = PutEntry(@, key, value, deleted),
                        !.ops = Append(@, [Key |-> key, Value |-> value, Deleted |-> deleted])]
    /\ UNCHANGED <<engineVars, wt, tb, bf, th>>

NextList ==
    \E key \in ListKeys, value \in Values, deleted \in BOOLEAN, newLevel \in 1..ListLevels :
        SLPutEntry(key, value, deleted, newLevel)

SpecList == Init /\ [][NextList]_vars

(***************************************************************************)
(* The WAL used on its own: OpenWAL, WritePut / WriteDelete, Close, then   *)
(* NewWALReader / ReadRecord and RecoverMemtable on the file.  The file    *)
(* may be damaged on the way: an append cut short (the file is reopened    *)
(* with OpenWAL, which appends), or one byte of a record altered at rest.  *)
(***************************************************************************)
WTOps ==
    {[recordType |-> RecordTypePut, key |-> <<1>>, value |-> <<7>>],
     [recordType |-> RecordTypePut, key |-> <<2>>, value |-> <<>>],
     [recordType |-> RecordTypeDelete, key |-> <<1>>, value |-> <<>>]}

\* the values a damaged byte is combined with (exclusive or)
FlipMasks == {1, 3, 255}

\* the bytes of the records S[i..] in file order
RECURSIVE RecordsBytes(_, _)
RecordsBytes(S, i) ==
    IF i > Len(S) THEN <<>>
    ELSE walRecords[S[i].recordType][S[i].key][S[i].value] \o RecordsBytes(S, i + 1)

\* a reader calling ReadRecord until it returns an error: the records read
\* and how the reading ended
RECURSIVE ReadAllRecords(_, _)
ReadAllRecords(f, pos) ==
    LET r == ReadRecord(f, pos)
    IN  IF r.kind # "record" THEN [records |-> <<>>, end |-> r.kind]
        ELSE LET rest == ReadAllRecords(f, r.pos)
             IN  [records |-> <<[recordType |-> r.recordType, key |-> r.key, value |-> r.value]>>
                                \o rest.records,
                  end |-> rest.end]

\* WAL.Write of one record, flushed to the file
WTWrite(op) ==
    /\ ~wt.closed
    /\ Len(wt.written) < MaxRecords
    /\ wt' = [wt EXCEPT !.file = @ \o walRecords[op.recordType][op.key][op.value],
                        !.written = Append(@, op)]
    /\ UNCHANGED <<engineVars, tb, bf, mt, th>>

\* an append that stops after n bytes of the record
WTPartial(op, n) ==
    /\ n < Len(walRecords[op.recordType][op.key][op.value])
    /\ ~wt.closed
    /\ wt.damage = "none"
    /\ wt' = [wt EXCEPT !.file = @ \o SubSeq(walRecords[op.recordType][op.key][op.value], 1, n),
                        !.damage = "partial",
                        !.at = Len(wt.written)]
    /\ UNCHANGED <<engineVars, tb, bf, mt, th>>

\* WAL.Close
WTClose ==
    /\ ~wt.closed
    /\ wt' = [wt EXCEPT !.closed = TRUE]
    /\ UNCHANGED <<engineVars, tb, bf, mt, th>>

\* byte j (counted from 1) of record i of the closed file is altered; bytes
\* 1..8 of a record are its magic and recordLen, the rest its payload and crc
WTFlip(i, j, mask) ==
    LET at == Len(RecordsBytes(SubSeq(wt.written, 1, i - 1), 1)) + j
    IN
    /\ wt.closed /\ ~wt.recovered
    /\ wt.damage = "none"
    /\ i \in 1..Len(wt.written)
    /\ j \in 9..Len(RecordsBytes(<<wt.written[i]>>, 1))
    /\ wt' = [wt EXCEPT !.file[at] = Xor8(@, mask),
                        !.damage = "flip",
                        !.at = i]
    /\ UNCHANGED <<engineVars, tb, bf, mt, th>>

\* RecoverMemtable on the file, and a reader going through it
WTRecover ==
    /\ wt.closed /\ ~wt.recovered
    /\ wt' = [wt EXCEPT !.recovered = TRUE,
                        !.result = RecoverMemtable(TRUE, wt.file, MemtableSize),
                        !.read = ReadAllRecords(wt.file, 0)]
    /\ UNCHANGED <<engineVars, tb, bf, mt, th>>

\* the longest record is 23 bytes
NextWAL ==
    \/ \E op \in WTOps : WTWrite(op)
    \/ \E op \in WTOps, n \in 1..22 : WTPartial(op, n)
    \/ WTClose
    \/ \E i \in 1..MaxRecords + 1, j \in 9..23, mask \in FlipMasks : WTFlip(i, j, mask)
    \/ WTRecover

SpecWAL == Init /\ [][NextWAL]_vars

(***************************************************************************)
(* WAL files of any content in front of the reader: records whose length   *)
(* fields are not those WAL.Write computes, as a damaged or foreign file   *)
(* can hold them, then RecoverMemtable on the file.                        *)
(***************************************************************************)
MaxCrafted == 2

\* values of the keyLen and valueLen fields: 0, 1, 2^32-1, 2^32-2
CraftedLens == {<<0, 0, 0, 0>>, <<1, 0, 0, 0>>, <<255, 255, 255, 255>>, <<254, 255, 255, 255>>}
\* values of the recordLen field: 13 (no key, no value) and 14
CraftedRecordLens == {13, 14}

\* a record in the layout of WAL.Write with the given length fields; the
\* recordLen - 13 bytes between the header and the crc are body, and the
\* crc is the one of the bytes before it or is zero
CraftedRecord(recordLen, keyLen, valueLen, goodCrc) ==
    LET body == [i \in 1..(recordLen - 13) |-> 1]
        sum == <<RecordTypePut>> \o keyLen \o valueLen \o body
    IN  walMagic \o PutUint32(recordLen) \o sum
          \o (IF goodCrc THEN ChecksumIEEE(sum) ELSE <<0, 0, 0, 0>>)

\* the file gets one more such record
RDAppend(recordLen, keyLen, valueLen, goodCrc) ==
    /\ ~wt.closed /\ ~wt.opened
    /\ wt.written = <<>> /\ wt.damage \in {"none", "crafted"}
    /\ Len(wt.file) < MaxCrafted * 21
    /\ wt' = [wt EXCEPT !.file = @ \o CraftedRecord(recordLen, keyLen, valueLen, goodCrc),
                        !.damage = "crafted"]
    /\ UNCHANGED <<engineVars, tb, bf, mt, th>>

NextRead ==
    \/ \E recordLen \in CraftedRecordLens, keyLen \in CraftedLens, valueLen \in CraftedLens,
          goodCrc \in BOOLEAN : RDAppend(recordLen, keyLen, valueLen, goodCrc)
    \/ WTClose
    \/ WTRecover

SpecRead == Init /\ [][NextRead]_vars

(***************************************************************************)
(* The WAL writer with its buffers.  A record goes into the bufio.Writer,  *)
(* Flush hands the buffer to the OS, file.Sync puts what the OS has on     *)
(* stable storage.  The OS may write back by itself at any time; a power   *)
(* loss leaves the part of the file that is on stable storage.             *)
(***************************************************************************)
SyncOutcomes == {"ok", "sync_fails"}

\* OpenWAL(path, sync) on a new file
SYOpen(sync) ==
    /\ ~wt.opened
    /\ wt' = [wt EXCEPT !.opened = TRUE, !.syncMode = sync, !.call = "OpenWAL", !.ret = "nil"]
    /\ UNCHANGED <<engineVars, tb, bf, mt, th>>

\* w.file.Sync() with outcome o
WALSync(w, o) ==
    IF o = "ok" THEN [w EXCEPT !.stable = Len(w.file), !.ret = "nil"]
    ELSE [w EXCEPT !.ret = "sync error"]

\* w.writer.Flush()
WALFlush(w) == [w EXCEPT !.file = @ \o w.buf, !.buf = <<>>]

\* WAL.Write: the record into the buffer, Flush, and in sync mode file.Sync
WALWrite(w, op, o) ==
    LET w1 == WALFlush([w EXCEPT !.buf = @ \o walRecords[op.recordType][op.key][op.value],
                                 !.call = "Write"])
        w2 == IF w.syncMode THEN WALSync(w1, o) ELSE [w1 EXCEPT !.ret = "nil"]
    IN  IF w2.ret = "nil"
        THEN [w2 EXCEPT !.written = Append(@, op), !.ackedEnd = Len(w2.file)]
        ELSE w2

\* the shortest record is 22 bytes
SYWrite(op, o) ==
    /\ wt.opened /\ ~wt.closed
    /\ Len(wt.file) < 22 * MaxRecords
    /\ ~wt.syncMode => o = "ok"
    /\ wt' = WALWrite(wt, op, o)
    /\ UNCHANGED <<engineVars, tb, bf, mt, th>>

\* WAL.Sync: Flush, then file.Sync
SYSync(o) ==
    /\ wt.opened /\ ~wt.closed
    /\ wt' = WALSync(WALFlush([wt EXCEPT !.call = "Sync"]), o)
    /\ UNCHANGED <<engineVars, tb, bf, mt, th>>

\* WAL.Close: Flush, then file.Close
SYClose ==
    /\ wt.opened /\ ~wt.closed
    /\ wt' = [WALFlush(wt) EXCEPT !.closed = TRUE, !.call = "Close", !.ret = "nil"]
    /\ UNCHANGED <<engineVars, tb, bf, mt, th>>

\* the OS writes back by itself all it has of the file, or all but the last
\* back bytes
SYWriteback(back) ==
    /\ wt.opened /\ wt.damage = "none"
    /\ Len(wt.file) - back > wt.stable
    /\ wt' = [wt EXCEPT !.stable = Len(wt.file) - back]
    /\ UNCHANGED <<engineVars, tb, bf, mt, th>>

\* power is lost: the file is what stable storage has
SYPowerLoss ==
    /\ wt.opened /\ wt.damage = "none"
    /\ wt' = [wt EXCEPT !.file = SubSeq(@, 1, wt.stable), !.buf = <<>>,
                        !.closed = TRUE, !.damage = "power"]
    /\ UNCHANGED <<engineVars, tb, bf, mt, th>>

NextSync ==
    \/ \E sync \in BOOLEAN : SYOpen(sync)
    \/ \E op \in WTOps, o \in SyncOutcomes : SYWrite(op, o)
    \/ \E o \in SyncOutcomes : SYSync(o)
    \/ SYClose
    \/ \E back \in {0, 5} : SYWriteback(back)
    \/ SYPowerLoss

SpecSync == Init /\ [][NextSync]_vars

(***************************************************************************)
(* Properties of the engine.                                               *)
(***************************************************************************)
\* a key whose last write was acknowledged, with no failed or interrupted
\* write to it since
Settled(k) == pend[k] = {}

\* C1: with a handle open, Get(k) returns the value of the most recent
\* successful Put(k, v), wherever that value lives (active memtable,
\* immutable memtable or a table) and whatever older tables hold.
C1_GetReturnsLastPut ==
    phase = "open" =>
        \A k \in Keys : (Settled(k) /\ acked[k].op = "Put") => Get(k) = Found(acked[k].value)

\* C2: once Delete(k) has succeeded and no Put(k) came later, Get(k) returns
\* NotFound, however many flushes happened before or after the Delete.
C2_DeleteThenGetNotFound ==
    phase = "open" =>
        \A k \in Keys : (Settled(k) /\ acked[k].op = "Delete") => Get(k) = NotFound

FlushCrashPoints == FlushCrashes \cup {"crash_after_rename", "crash_after_remove"}

\* every table of the list is a finished file
TablesComplete == \A i \in 1..Len(db.sstables) : disk.sst[db.sstables[i]].complete

\* C3: after a crash at any step of a flush and the Open that follows, the
\* table list holds no partially written table and, for every key, Get
\* returns the result of the last acknowledged Put/Delete (for the key of the
\* write that was in flight at the crash, that write's result is accepted too).
C3_FlushCrashSafe ==
    (phase = "open" /\ last.op = "Open" /\ last.crash \in FlushCrashPoints) =>
        /\ TablesComplete
        /\ \A k \in Keys : Get(k) \in {Expect(acked[k])} \cup pend[k]

\* C4: Close followed by Open on the same directory preserves the store: for
\* every key, Get on the reopened DB returns what it returned immediately
\* before Close, and Stats reports the same number of tables.
C4_CloseOpenPreservesGet ==
    (phase = "open" /\ last.op = "Open" /\ snap.taken) =>
        /\ \A k \in Keys : Get(k) = snap.get[k]
        /\ Len(db.sstables) = snap.tables

\* C8: if the WAL append inside Put or Delete fails, the call returns an
\* error and the active memtable (contents, size, count), the immutable slot,
\* the tables list, the id counter and the table files are unchanged: no
\* flush was triggered.
C8_WalFailureFrame ==
    [][(last'.op = "write" /\ last'.ret = "WAL write failed") =>
          /\ db'.memtable = db.memtable
          /\ db'.immutable = db.immutable
          /\ db'.sstables = db.sstables
          /\ db'.nextSSTableID = db.nextSSTableID
          /\ disk'.sst = disk.sst
          /\ disk'.tmp = disk.tmp]_vars

\* a WAL append failed on a memtable that holds an entry, leaving part of the
\* record in wal.log
C8_Witness ==
    /\ last.op = "write" /\ last.ret = "WAL write failed"
    /\ db.memtable.data.count = 1
    /\ Len(disk.wal) > Len(walRecords[RecordTypePut][<<1>>][<<7>>])

WriteErrors == {"WAL write failed", "flush failed", "failed to open new SSTable",
                "failed to open WAL", "ErrMemtableImmutable"}

\* C9: whenever Put or Delete returns an error (WAL append or flush), the
\* call left no visible mutation: every Get returns what it returned before.
C9_ErrorLeavesNoMutation ==
    [][(last'.op = "write" /\ last'.ret \in WriteErrors) =>
          \A k \in Keys : DBGet(db', disk', k) = DBGet(db, disk, k)]_vars

\* C10: after a failed flush no temp file of the attempt remains in the data
\* directory and the tables list is what it was before the attempt.
C10_FailedFlushCleansUp ==
    last.flush.failed =>
        /\ last.flush.id \notin DOMAIN disk.tmp
        /\ db.sstables = last.flush.before

\* the memtable a Put or Delete of the step leaves when applied to m
AppliedTo(m) ==
    {MemtablePut(m, k, v).mem : k \in Keys, v \in Values}
        \cup {MemtableDelete(m, k).mem : k \in Keys}

\* what Get gives for a key a memtable holds
Answer(m, k) == IF m.data.entries[k].Deleted THEN NotFound ELSE Found(m.data.entries[k].Value)

\* C11: after a failed flush the frozen memtable stays in the immutable slot
\* and keeps answering Get; later Put/Delete go to the new active memtable
\* and leave the slot alone; the next flush first writes the waiting
\* immutable memtable to a table (id n) and only then freezes and writes the
\* active memtable (id n+1), so the list then starts with n+1, n.
C11_StuckImmutableRetriedFirst ==
    [][/\ (last'.flush.failed /\ last'.op = "write") =>
             /\ db'.immutable # <<>>
             /\ db'.immutable[1].state = memtableImmutable
             /\ \/ db.immutable # <<>> /\ db'.immutable = db.immutable
                \/ /\ \E m \in AppliedTo(db.memtable) : db'.immutable = <<SetImmutable(m)>>
                   /\ db'.memtable = NewMemtable(MemtableSize)
             /\ \A k \in DOMAIN db'.immutable[1].data.entries :
                    k \notin DOMAIN db'.memtable.data.entries =>
                        DBGet(db', disk', k) = Answer(db'.immutable[1], k)
       /\ (last'.op = "write" /\ last'.ret = "nil" /\ db.immutable # <<>>
              /\ db'.sstables = db.sstables) =>
             /\ db'.immutable = db.immutable
             /\ db'.memtable \in AppliedTo(db.memtable)
       /\ (last'.op = "write" /\ db.immutable # <<>> /\ db'.sstables # db.sstables) =>
             LET n == db.nextSSTableID
             IN  /\ disk'.sst[n] = FlushedTable(db.immutable[1])
                 /\ \/ /\ db'.sstables = <<n>> \o db.sstables
                       /\ last'.ret # "nil"
                    \/ /\ db'.sstables = <<n + 1, n>> \o db.sstables
                       /\ db'.immutable = <<>>
                       /\ db'.nextSSTableID = n + 2
                       /\ \E m \in AppliedTo(db.memtable) :
                              disk'.sst[n + 1] = FlushedTable(SetImmutable(m))]_vars

\* a flush had failed, and the write just returned first wrote the waiting
\* immutable memtable to a table and then the memtable it froze: two tables
\* with consecutive ids and different contents, the newer one in front
C11_Witness ==
    /\ phase = "open" /\ last.op = "write" /\ last.ret = "nil" /\ last.stuck
    /\ Len(db.sstables) = 2 /\ db.sstables[1] = db.sstables[2] + 1
    /\ db.immutable = <<>>
    /\ disk.sst[db.sstables[1]].blocks # disk.sst[db.sstables[2]].blocks

C19_TablesNewestFirst ==
    /\ \A i \in 1..Len(db.sstables) - 1 : db.sstables[i] > db.sstables[i + 1]
    /\ \A i \in 1..Len(db.sstables) : db.nextSSTableID > db.sstables[i]

\* three flushes have each put a table in front of the list, the ids of the
\* two oldest are not consecutive (a failed flush used up the id between
\* them), and after Close the files have been loaded again by Open
C19_Witness ==
    /\ phase = "open" /\ snap.taken
    /\ Len(db.sstables) = 3
    /\ db.sstables[2] > db.sstables[3] + 1
    /\ db.nextSSTableID = db.sstables[1] + 1

(***************************************************************************)
(* Properties of the WAL.                                                  *)
(***************************************************************************)
\* the last record of S for key k (0 when S does not mention k)
RECURSIVE LastFor(_, _, _)
LastFor(S, k, i) ==
    IF i = 0 THEN 0 ELSE IF S[i].key = k THEN i ELSE LastFor(S, k, i - 1)

\* what Get(k) gives on an empty map after S is applied in order
Applied(S, k) ==
    LET i == LastFor(S, k, Len(S))
    IN  IF i = 0 THEN [value |-> <<>>, deleted |-> FALSE, found |-> FALSE]
        ELSE IF S[i].recordType = RecordTypeDelete
        THEN [value |-> <<>>, deleted |-> TRUE, found |-> TRUE]
        ELSE [value |-> S[i].value, deleted |-> FALSE, found |-> TRUE]

\* S without its i-th element
Without(S, i) == SubSeq(S, 1, i - 1) \o SubSeq(S, i + 1, Len(S))

\* C5: for a sequence S of WritePut / WriteDelete followed by Close,
\* RecoverMemtable yields a memtable whose Get(k), for every key S mentions,
\* is the result of applying S in order to an empty map (a Delete leaves a
\* found tombstone), and ReadRecord returns the records of S in the order
\* written and then io.EOF.
C5_WALRoundTrip ==
    (wt.recovered /\ wt.damage = "none") =>
        /\ ~wt.result.panic
        /\ \A i \in 1..Len(wt.written) :
              MemtableGet(wt.result.mem, wt.written[i].key) = Applied(wt.written, wt.written[i].key)
        /\ wt.read = [records |-> wt.written, end |-> "EOF"]

\* a Put of key 1, a Put of the empty value and a Delete of key 1 were
\* written, closed and recovered
C5_Witness ==
    /\ wt.recovered /\ wt.damage = "none"
    /\ Len(wt.written) = 3
    /\ wt.written[1].recordType = RecordTypePut /\ wt.written[1].key = <<1>>
    /\ wt.written[2].value = <<>> /\ wt.written[2].key = <<2>>
    /\ wt.written[3].recordType = RecordTypeDelete
    /\ wt.result.recovered = 3

\* C6: a truncated partial record is skipped by recovery without any
\* complete record after it being skipped: the records appended after the
\* partial one are all applied, in order, as the last records applied.
C6_PartialRecordSkipped ==
    (wt.recovered /\ wt.damage = "partial") =>
        LET after == SubSeq(wt.written, wt.at + 1, Len(wt.written))
            applied == wt.result.applied
        IN  /\ ~wt.result.panic
            /\ Len(applied) >= Len(after)
            /\ SubSeq(applied, Len(applied) - Len(after) + 1, Len(applied)) = after

\* C7: with one byte of the payload or crc of exactly one record altered,
\* RecoverMemtable returns normally, applies every other record in order,
\* does not apply the damaged one, and counts at least one corrupted record.
C7_SingleFlipSkipsOnlyDamaged ==
    (wt.recovered /\ wt.damage = "flip") =>
        /\ ~wt.result.panic
        /\ wt.result.applied = Without(wt.written, wt.at)
        /\ wt.result.recovered = Len(wt.written) - 1
        /\ wt.result.corrupted >= 1

\* three records, a byte of the second altered, recovered: the first and
\* the third were applied
C7_Witness ==
    /\ wt.recovered /\ wt.damage = "flip"
    /\ Len(wt.written) = 3 /\ wt.at = 2
    /\ wt.result.applied = <<wt.written[1], wt.written[3]>>
    /\ wt.result.corrupted = 1

(***************************************************************************)
(* Properties of a DB handle shared by several threads.                    *)
(***************************************************************************)
\* what Get(k) must give once the writes S have taken effect in order
ExpectAfter(S, k) ==
    LET i == LastFor(S, k, Len(S))
    IN  IF i = 0 THEN NotFound ELSE ResultOf(S[i].recordType, S[i].value)

\* the records of the writes S
RecordsOf(S) ==
    [i \in 1..Len(S) |-> [recordType |-> S[i].recordType, key |-> S[i].key, value |-> S[i].value]]

Quiescent == \A t \in Threads : th.pc[t] = "idle"

\* C12: under any interleaving of concurrent Put, Delete and Get, flushes
\* included, writes take effect in the order in which they took the writer
\* lock: the WAL receives their records in that order and holds those
\* written since the last flush, each is applied to the memtable once and in
\* that order, a Get returns the last write to its key among those that took
\* the lock before it, and when every call has returned Get(k) returns the
\* last write to k in that order.
C12_Linearizable ==
    /\ th.logged = SubSeq(th.order, 1, Len(th.logged))
    /\ th.applied = SubSeq(th.order, 1, Len(th.applied))
    /\ ReadAllRecords(disk.wal, 0) =
          [records |-> RecordsOf(SubSeq(th.logged, th.base + 1, Len(th.logged))), end |-> "EOF"]
    /\ \A t \in Threads :
          (th.pc[t] = "unlock" /\ th.op[t].kind = "Get") =>
              th.got[t] = ExpectAfter(th.order, th.op[t].key)
    /\ Quiescent => \A k \in Keys : DBGet(db, disk, k) = ExpectAfter(th.order, k)

(***************************************************************************)
(* Properties of the membership filter.                                    *)
(***************************************************************************)
\* C16: no false negatives.  After any sequence of Add calls MayContain(k)
\* is true for every key k that was added, for every size and hash count
\* NewBloomFilter produces; the same holds for the filter that
\* DecodeBloomFilter makes of Encode of the filter, which is the filter a
\* table reader gets for a table written with bits-per-key > 0.
C16_NoFalseNegatives ==
    bf.made =>
        /\ DecodeBloomFilter(Encode(bf.f)).err = "nil"
        /\ \A k \in bf.added :
              /\ MayContain(bf.f, k)
              /\ MayContain(DecodeBloomFilter(Encode(bf.f)).filter, k)

\* three keys were added to a filter of the size a table writer uses, before
\* and after it went through Encode and DecodeBloomFilter, and the filter
\* still rejects a key that was not added
C16_Witness ==
    /\ bf.made /\ bf.decoded
    /\ bf.f.numBits = 3000 /\ bf.f.numHash = 2 /\ bf.f.numItems = 4
    /\ Cardinality(bf.added) = 3
    /\ \E k \in FilterKeys \ bf.added : ~MayContain(bf.f, k)

(***************************************************************************)
(* Properties of one table file.                                           *)
(***************************************************************************)
\* the entry added under key k, as Get reports it, or not found
RECURSIVE AddedAs(_, _, _)
AddedAs(added, k, i) ==
    IF i > Len(added) THEN NotFoundInTable
    ELSE IF added[i].Key = k
    THEN [value |-> added[i].Value, deleted |-> added[i].Deleted, found |-> TRUE]
    ELSE AddedAs(added, k, i + 1)

\* C14: table round trip.  For every strictly ascending sequence of entries
\* given to Add and closed with Finish, opening the file and iterating with
\* SeekToFirst/Next yields exactly the entries added, in the same order,
\* tombstones and empty values included, over any number of data blocks, and
\* then the iterator becomes invalid; an empty table yields no entry.
C14_TableRoundTrip ==
    /\ (tb.listed /\ tb.damage = "none") => tb.out = SubSeq(tb.added, 1, Len(tb.out))
    /\ (tb.listed /\ tb.damage = "none" /\ tb.scan = "done") => tb.out = tb.added

\* C15: point lookup is exact.  For every table written from a strictly
\* ascending entry sequence, Get(k) returns (value, deleted, found=true) for
\* every key that was added, also for an entry with an empty value that is
\* the last entry of its data block, and found=false for every other key.
C15_PointLookupExact ==
    (tb.listed /\ tb.damage = "none" /\ tb.got.called) =>
        tb.got.res = AddedAs(tb.added, tb.got.key, 1)

\* every data block the index of the reader names passes its CRC
BlocksValid(r, file) ==
    \A i \in 1..Len(r.index) : ReadBlock(file, r.index[i]).ok

\* C20: every table on the tables list is complete, that is, its file has
\* the footer magic and every data block passes its CRC; a file that is
\* half-written or damaged is never on the list, and a crash leaves no
\* half-written table under a final name.
C20_ListedTablesComplete ==
    /\ tb.listed =>
         /\ Len(tb.file) >= 8
         /\ Slice(tb.file, Len(tb.file) - 8, Len(tb.file)) = SSTableMagic
         /\ BlocksValid(tb.r, tb.file)
    /\ tb.stage \in {"crashed", "cleaned"} => ~tb.listed

(***************************************************************************)
(* Properties of one memtable used by several threads.                     *)
(***************************************************************************)
\* C17: the freeze contract.  Once SetImmutable has returned, the state is
\* immutable and stays so, the contents, size and count of the memtable are
\* those at that return whatever calls are still under way or come later
\* (a second SetImmutable included), every Put or Delete that began after
\* the return ends with ErrMemtableImmutable, and Get still answers from the
\* frozen contents.
C17_FreezeContract ==
    mt.frozen =>
        /\ mt.m.state = memtableImmutable
        /\ mt.m.data = mt.atFreeze
        /\ \A t \in Threads :
              (mt.late[t] /\ mt.op[t].kind \in {"Put", "Delete"} /\ mt.ret[t] # "none")
                  => mt.ret[t] = "ErrMemtableImmutable"
        /\ (mt.got.called /\ mt.got.frozen) => mt.got.res = SkipListGet(mt.atFreeze, mt.got.key)

\* a Put was applied before the freeze, SetImmutable has returned twice, a
\* Put that began after the first return has ended with
\* ErrMemtableImmutable, and a Get after the freeze found the key
C17_Witness ==
    /\ mt.frozen /\ mt.returns = 2
    /\ mt.m.data.count = 1
    /\ \E t \in Threads :
          /\ mt.pc[t] = "idle" /\ mt.late[t]
          /\ mt.op[t].kind = "Put" /\ mt.ret[t] = "ErrMemtableImmutable"
    /\ mt.got.called /\ mt.got.frozen /\ mt.got.res.found

\* C18: the byte size of the active memtable never goes down.  No successful
\* Put or Delete, an overwrite by a shorter value or by a tombstone
\* included, makes Memtable.Size() smaller than it was before the call.
C18_SizeMonotone == [][mt'.m.data.size >= mt.m.data.size]_vars

(***************************************************************************)
(* Properties of the engine: the WAL against the memtable, and flushes.    *)
(***************************************************************************)
\* the memtable RecoverMemtable builds from the wal.log of the directory
Replayed == RecoverMemtable(disk.walExists, disk.wal, MemtableSize)

\* C21: after every successful Open, Put or Delete, replaying the current
\* wal.log from its start into an empty memtable gives, for every key, the
\* same (value, deleted, found) as the active memtable; also after a flush,
\* after a failed flush followed by further writes, and after Open has
\* recovered an existing WAL.
C21_WalReplayEqualsMemtable ==
    (phase = "open" /\ last.op \in {"Open", "write"} /\ last.ret = "nil") =>
        /\ ~Replayed.panic
        /\ \A k \in Keys : MemtableGet(Replayed.mem, k) = MemtableGet(db.memtable, k)

(***************************************************************************)
(* Properties of the WAL replay.                                           *)
(***************************************************************************)
\* the loop of RecoverMemtable run a second time over the same file, on the
\* memtable the first run has filled
ReplayedTwice == RecoverLoop(wt.file, 0, wt.result.mem.data, 0, 0, <<>>)

\* C22: applying the records of a WAL twice in succession to a fresh memtable
\* gives, for every key, the same (value, deleted, found) and the same Count
\* as applying them once.
C22_ReplayIdempotent ==
    (wt.recovered /\ ~wt.result.panic) =>
        /\ ~ReplayedTwice.panic
        /\ ReplayedTwice.applied = wt.result.applied
        /\ \A k \in Keys :
              SkipListGet(ReplayedTwice.data, k) = MemtableGet(wt.result.mem, k)
        /\ ReplayedTwice.data.count = wt.result.mem.data.count

\* a recovered file of three records, two of them on the same key, one a
\* tombstone
C22_Witness ==
    /\ wt.recovered /\ ~wt.result.panic
    /\ Len(wt.result.applied) = 3
    /\ wt.result.mem.data.count = 2
    /\ \E i, j \in 1..3 : /\ i < j
                          /\ wt.result.applied[i].key = wt.result.applied[j].key
                          /\ wt.result.applied[i].recordType = RecordTypePut
                          /\ wt.result.applied[j].recordType = RecordTypeDelete

(***************************************************************************)
(* Properties of OpenSSTable on the two footer layouts.                    *)
(***************************************************************************)
\* the file on disk is in the older layout
IsLegacy == tb.file = LegacyFinish(tb.w)

\* C23: both footer shapes are accepted.  OpenSSTable on a well-formed file
\* that ends in the 24-byte footer, whatever its size and in particular at
\* 40 bytes or more, succeeds with no filter and with the index that footer
\* locates, and lookups return the entries of the file; a file ending in the
\* 40-byte footer is read with its index and its filter.
C23_BothFootersAccepted ==
    /\ (tb.stage = "opened" /\ IsLegacy) =>
          /\ tb.r.err = "nil"
          /\ ~tb.r.hasFilter
          /\ tb.r.index = WriterFlushBlock(tb.w).index
          /\ \A i \in 1..Len(tb.added) :
                ReaderGet(tb.r, tb.file, tb.added[i].Key).found
    /\ (tb.stage = "opened" /\ ~IsLegacy) =>
          /\ tb.r.err = "nil"
          /\ tb.r.index = WriterFlushBlock(tb.w).index
          /\ tb.r.hasFilter = tb.w.hasFilter
          /\ tb.r.hasFilter => tb.r.bloomFilter = tb.w.bloomFilter

(***************************************************************************)
(* Properties of the WAL writer with its buffers.                          *)
(***************************************************************************)
\* every record whose Write returned nil is in what the file holds
AckedInFile ==
    /\ Len(wt.file) >= wt.ackedEnd
    /\ \A i \in 1..Len(wt.written) :
          \E j \in 1..Len(ReadAllRecords(wt.file, 0).records) :
              ReadAllRecords(wt.file, 0).records[j] = wt.written[i]

\* C24: in sync mode every Write that returns nil has had its record flushed
\* out of the user-space buffer and fsynced before the return, so that a
\* power loss keeps it; without sync mode a Write that has returned has
\* reached the OS, and is on stable storage once a later Sync or Close has
\* returned.
C24_DurableWrites ==
    /\ (wt.opened /\ wt.syncMode) => (wt.stable >= wt.ackedEnd /\ AckedInFile)
    /\ (wt.opened /\ wt.damage = "none") => (wt.buf = <<>> /\ AckedInFile)
    /\ (wt.opened /\ wt.call \in {"Sync", "Close"} /\ wt.ret = "nil")
          => (wt.stable >= wt.ackedEnd /\ AckedInFile)

Inserted(recordType, key, value) ==
    IF recordType = RecordTypePut THEN MemtablePut(db.memtable, key, value).mem
    ELSE MemtableDelete(db.memtable, key).mem

\* this step is a Put or Delete that has flushed and returned nil
FlushedByWrite ==
    /\ phase = "open" /\ ~db.closed
    /\ last'.op = "write" /\ last'.ret = "nil"
    /\ writes' = writes + 1
    /\ db'.sstables # db.sstables

\* C26: after a successful flush triggered by Put or Delete the immutable
\* slot is empty, the active memtable is a new empty one, the tables list is
\* the previous one with exactly one new table in front, that table holds
\* exactly the entries of the frozen memtable, tombstones included, in key
\* order, and wal.log has been replaced by an empty WAL that is the live one.
C26_FlushPostcondition ==
    [][FlushedByWrite =>
          /\ db'.immutable = <<>>
          /\ db'.memtable = NewMemtable(MemtableSize)
          /\ Len(db'.sstables) = Len(db.sstables) + 1
          /\ Tail(db'.sstables) = db.sstables
          /\ \E recordType \in {RecordTypePut, RecordTypeDelete}, key \in Keys, value \in Values :
                disk'.sst[Head(db'.sstables)] = FlushedTable(Inserted(recordType, key, value))
          /\ disk'.walExists /\ disk'.wal = <<>>
          /\ ~db'.wal.err]_vars

\* what a Put or Delete called now with these inputs returns, for every way
\* its WAL append and its flush can end
WriteResults(recordType, key, value) ==
    {Write(db, disk, recordType, key, value, c[1], c[2], c[3], c[4]) :
        c \in {x \in WriteChoices(recordType, key, value) : Canonical(x)}}

WriteInputs ==
    {<<RecordTypePut, key, value>> : key \in Keys, value \in Values}
      \cup {<<RecordTypeDelete, key, <<>>>> : key \in Keys}

\* C27: a Put or Delete triggers a flush exactly when, after the insert, the
\* size of the active memtable is at or above the threshold; so after every
\* Put or Delete that returns nil the size of the active memtable is below
\* the threshold.
C27_FlushTrigger ==
    (phase = "open" /\ ~db.closed /\ writes + faults < MaxEvents) =>
        \A in \in WriteInputs : \A r \in WriteResults(in[1], in[2], in[3]) :
            (r.err = "nil" /\ ~r.died) =>
                /\ (r.db.sstables # db.sstables)
                      <=> (Inserted(in[1], in[2], in[3]).data.size >= MemtableSize)
                /\ r.db.memtable.data.size < MemtableSize

\* a write has returned nil and left the active memtable one byte below the
\* threshold, after an earlier write had reached it and flushed
C27_Witness ==
    /\ phase = "open" /\ last.op = "write" /\ last.ret = "nil"
    /\ db.memtable.data.size = MemtableSize - 1
    /\ db.sstables # <<>>

\* C28: when Open has recovered from the WAL a memtable whose size is at or
\* above the threshold, the first Put or Delete after Open, whatever its key
\* and value, triggers a flush of that memtable before it returns.
C28_OversizedRecoveryFlushes ==
    (/\ phase = "open" /\ last.op = "Open" /\ last.ret = "nil"
     /\ writes + faults < MaxEvents
     /\ db.memtable.data.size >= MemtableSize) =>
        \A in \in WriteInputs :
            \A c \in {x \in WriteChoices(in[1], in[2], in[3]) : Canonical(x) /\ x[1] = WalOk} :
                Write(db, disk, in[1], in[2], in[3], c[1], c[2], c[3], c[4]).db.nextSSTableID
                    > db.nextSSTableID

(***************************************************************************)
(* Properties of the two memtable slots.                                   *)
(***************************************************************************)
\* C29: in every reachable state of an open DB the memtable in the active
\* slot is in state active and a memtable in the immutable slot is in state
\* immutable; so Put and Delete never return ErrMemtableImmutable to the
\* caller, also after a failed flush and during retries.
C29_SlotStates ==
    /\ (phase = "open" /\ ~db.closed) =>
          /\ db.memtable.state = memtableActive
          /\ \A i \in 1..Len(db.immutable) : db.immutable[i].state = memtableImmutable
    /\ last.ret # "ErrMemtableImmutable"

\* a flush has failed and left its memtable in the immutable slot, and a
\* later Put or Delete has returned nil
C29_Witness ==
    /\ phase = "open" /\ ~db.closed
    /\ last.op = "write" /\ last.ret = "nil"
    /\ db.immutable # <<>>
    /\ db.memtable.data.count > 0

(***************************************************************************)
(* Properties of the resynchronisation of the WAL reader.                  *)
(***************************************************************************)
\* the magic is at offset q of file f
MagicAt(f, q) == q + 4 <= Len(f) /\ Slice(f, q, q + 4) = walMagic

\* where the piece of the file that holds the damage starts, and where the
\* piece after it starts: the record wt.at for an altered byte, the cut
\* record, which comes after wt.at complete ones, for an append cut short
DamagedStart ==
    Len(RecordsBytes(SubSeq(wt.written, 1, IF wt.damage = "flip" THEN wt.at - 1 ELSE wt.at), 1))
SuccessorStart ==
    IF wt.damage = "flip"
    THEN Len(RecordsBytes(SubSeq(wt.written, 1, wt.at), 1))
    ELSE Len(wt.file) - Len(RecordsBytes(SubSeq(wt.written, wt.at + 1, Len(wt.written)), 1))

\* ScanToNextRecord called with the reader at offset from
Resync(from) == ScanToNextRecord(wt.file, from, 0)

\* C30: after ReadRecord has reported a corruption, ScanToNextRecord returns
\* true exactly when the magic DE AD BE EF still occurs in the unread part
\* of the file, and the next ReadRecord then starts at the first such
\* occurrence, no occurrence that begins at or after the start of the
\* failed record's successor being passed over; otherwise it returns false
\* at the end of the file.
C30_ResyncPositioning ==
    /\ wt.closed =>
          \A pos \in 0..Len(wt.file) :
              ReadRecord(wt.file, pos).kind = "error" =>
                  LET from == ReadRecord(wt.file, pos).pos
                  IN  /\ Resync(from).found <=> \E q \in from..Len(wt.file) : MagicAt(wt.file, q)
                      /\ Resync(from).found =>
                            /\ MagicAt(wt.file, Resync(from).pos)
                            /\ Resync(from).pos >= from
                            /\ \A q \in from..Len(wt.file) :
                                  MagicAt(wt.file, q) => Resync(from).pos <= q
                      /\ ~Resync(from).found => Resync(from).pos = Len(wt.file)
    /\ (wt.closed /\ wt.damage \in {"flip", "partial"}
           /\ ReadRecord(wt.file, DamagedStart).kind = "error") =>
          \A q \in SuccessorStart..Len(wt.file) :
              MagicAt(wt.file, q) =>
                  /\ Resync(ReadRecord(wt.file, DamagedStart).pos).found
                  /\ Resync(ReadRecord(wt.file, DamagedStart).pos).pos <= q

(***************************************************************************)
(* Properties of the WAL reader on files of any content.                   *)
(***************************************************************************)
\* C31: for every byte content of the WAL file ReadRecord returns a record,
\* EOF or a corruption error and never faults: a record whose keyLen and
\* valueLen do not fit inside the recordLen bytes read is rejected by the
\* length check, the sums being taken modulo 2^32, so key and value are
\* sliced within the record and RecoverMemtable returns normally.
C31_ReadRecordNeverFaults ==
    /\ wt.closed =>
          \A pos \in 0..Len(wt.file) :
              ReadRecord(wt.file, pos).kind \in {"record", "EOF", "error"}
    /\ wt.recovered => ~wt.result.panic

(***************************************************************************)
(* Properties of calls that run next to Close.                             *)
(***************************************************************************)
\* C32: a Get that runs concurrently with Close returns the current value
\* of the key (NotFound when it is absent or deleted) or the Closed error,
\* and never NotFound for a key whose last successful write is a Put, also
\* when Close closes the table readers between the closed check of the Get
\* and its read lock; a Put or Delete racing with Close takes full effect
\* or fails without changing the memtable.
C32_GetDuringClose ==
    /\ \A t \in Threads :
          (th.pc[t] = "unlock" /\ th.op[t].kind = "Get") =>
              th.got[t] = ExpectAfter(th.applied, th.op[t].key)
    /\ \A t \in Threads :
          (th.op[t].kind = "write" /\ th.ret[t] \notin {"none", "nil"}) =>
              th.applied = SubSeq(th.logged, 1, Len(th.applied))
    /\ \A k \in Keys :
          (th.mu.writer = 0 /\ db.immutable = <<>>) =>
              DBGet_NoClosedCheck(db, disk, k) = ExpectAfter(th.applied, k)

(***************************************************************************)
(* Properties of the skip-list iterators.                                  *)
(***************************************************************************)
\* C33: when FlushMemtableToSSTable returns, on success and on every failure
\* path, the read guard it took on the skip list of the memtable has been
\* released: as many read guards are held on that skip list as before the
\* call.
C33_FlushReleasesGuard ==
    [][mt'.flushes # mt.flushes => mt'.guards = mt.guards]_vars

(***************************************************************************)
(* Properties of the locks.                                                *)
(***************************************************************************)
\* C34: no deadlock: under any interleaving of concurrent Put, Delete, Get,
\* Stats and Close, with fair scheduling, every call eventually returns; the
\* engine lock, the memtable mutex, the skip-list lock and the WAL mutex are
\* never waited on in a cycle, also while a flush runs on the writing thread
\* and when a failed flush is retried on the same immutable memtable.
C34_EveryCallReturns ==
    \A t \in Threads : (th.pc[t] # "idle") ~> (th.pc[t] = "idle")

\* a caller waits for db.mu while the thread that holds it has retried a
\* failed flush on the same immutable memtable
C34_Witness ==
    \E t, u \in Threads :
        /\ th.pc[t] = "lock" /\ th.mu.writer = u /\ th.pc[u] = "unlock"
        /\ th.ret[u] = "flush failed" /\ th.immGuards >= 2

(***************************************************************************)
(* Properties of the skip list, node by node.                              *)
(***************************************************************************)
\* the keys in the order a forward iteration visits them
IteratedKeys == [i \in 1..Len(Iterate(mt.list)) |-> mt.list.nodes[Iterate(mt.list)[i]].Key]

\* the last call on key k, 0 when there is none
LastOp(k) ==
    LET S == {i \in 1..Len(mt.ops) : mt.ops[i].Key = k}
    IN  IF S = {} THEN 0 ELSE CHOOSE i \in S : \A j \in S : j <= i

RECURSIVE SumSizes(_, _)
SumSizes(nodes, n) ==
    IF n = 0 THEN 0 ELSE EntrySize(nodes[n].Key, nodes[n].Value) + SumSizes(nodes, n - 1)

\* C35: after any sequence of Put and Delete calls on a skip list the list
\* holds each key at most once, Count is the number of distinct keys ever
\* inserted, Size is the sum over the stored entries of
\* len(key) + len(value) + 1 + 8, Get(k) returns the entry of the last Put
\* or Delete on k (a Delete leaves a found tombstone with no value), and a
\* forward iteration from SeekToFirst visits all keys in strictly ascending
\* comparator order.
C35_SkipListAccounting ==
    /\ \A i, j \in 1..Len(mt.list.nodes) :
          i # j => mt.list.nodes[i].Key # mt.list.nodes[j].Key
    /\ mt.list.count = Cardinality({mt.ops[i].Key : i \in 1..Len(mt.ops)})
    /\ mt.list.size = SumSizes(mt.list.nodes, Len(mt.list.nodes))
    /\ \A k \in ListKeys :
          LinkedGet(mt.list, k) =
              IF LastOp(k) = 0 THEN [value |-> <<>>, deleted |-> FALSE, found |-> FALSE]
              ELSE [value |-> mt.ops[LastOp(k)].Value, deleted |-> mt.ops[LastOp(k)].Deleted,
                    found |-> TRUE]
    /\ Len(IteratedKeys) = Len(mt.list.nodes)
    /\ \A i \in 1..(Len(IteratedKeys) - 1) : Compare(IteratedKeys[i], IteratedKeys[i + 1]) < 0
    /\ mt.abs.count = mt.list.count /\ mt.abs.size = mt.list.size
    /\ \A k \in ListKeys : SkipListGet(mt.abs, k) = LinkedGet(mt.list, k)

\* two keys are in the list, linked in other than ascending order, one of
\* them on the upper level, and a Delete has followed the Put of a key
C35_Witness ==
    /\ Len(mt.list.nodes) = 2 /\ Len(mt.ops) = 3
    /\ Compare(mt.list.nodes[1].Key, mt.list.nodes[2].Key) > 0
    /\ mt.list.level = 2
    /\ mt.ops[3].Deleted /\ ~mt.ops[1].Deleted /\ mt.ops[1].Key = mt.ops[3].Key

(***************************************************************************)
(* Properties of damaged data blocks.                                      *)
(***************************************************************************)
\* the block of handle h lies in the file and its last four bytes are not
\* the CRC of the bytes before them
CrcMismatch(file, h) ==
    /\ h.Size >= 4 /\ h.Offset + h.Size <= Len(file)
    /\ ChecksumIEEE(Slice(file, h.Offset, h.Offset + h.Size - 4))
          # Slice(file, h.Offset + h.Size - 4, h.Offset + h.Size)

\* the table loop of DB.Get over the results rs of the readers, newest first
RECURSIVE GetFromResults(_, _)
GetFromResults(rs, i) ==
    IF i > Len(rs) THEN NotFound
    ELSE IF rs[i].found THEN (IF rs[i].deleted THEN NotFound ELSE Found(rs[i].value))
    ELSE GetFromResults(rs, i + 1)

\* what an older table can answer
OlderResults ==
    {NotFoundInTable, [value |-> <<7>>, deleted |-> FALSE, found |-> TRUE],
     [value |-> <<>>, deleted |-> TRUE, found |-> TRUE]}

\* C36: when the CRC at the end of the data block selected for a lookup does
\* not match the data of the block, SSTableReader.Get returns found=false,
\* with no entry from that block, and the engine goes on to the older
\* tables; an iterator that loads a block whose CRC does not match becomes
\* invalid and yields no entry from that block.
C36_CorruptBlockIsAbsence ==
    /\ (/\ tb.got.called
        /\ findBlock(tb.r, tb.got.key) >= 0
        /\ CrcMismatch(tb.file, tb.r.index[findBlock(tb.r, tb.got.key) + 1]))
          => /\ tb.got.res = NotFoundInTable
             /\ \A older \in OlderResults :
                   GetFromResults(<<tb.got.res, older>>, 1) = GetFromResults(<<older>>, 1)
    /\ tb.scan # "none" =>
          /\ \A i \in 1..Len(tb.out) :
                /\ findBlock(tb.r, tb.out[i].Key) >= 0
                /\ ~CrcMismatch(tb.file, tb.r.index[findBlock(tb.r, tb.out[i].Key) + 1])
          /\ (/\ tb.it.blockIdx >= 0 /\ tb.it.blockIdx < Len(tb.r.index)
              /\ CrcMismatch(tb.file, tb.r.index[tb.it.blockIdx + 1]))
                => ~tb.it.valid /\ tb.scan = "done"

\* a key that was added is looked up in a table whose block for it has been
\* damaged
C36_Witness ==
    /\ tb.damage = "flip" /\ tb.got.called
    /\ \E i \in 1..Len(tb.added) : tb.added[i].Key = tb.got.key
    /\ findBlock(tb.r, tb.got.key) >= 0
    /\ CrcMismatch(tb.file, tb.r.index[findBlock(tb.r, tb.got.key) + 1])

(***************************************************************************)
(* Properties of table files that cannot be opened.                        *)
(***************************************************************************)
\* C37: a table file that cannot be opened at load time (too small, bad
\* footer magic, undecodable index or filter) is not fatal: OpenSSTable
\* returns an error rather than a reader, Open goes on and succeeds, and the
\* file is absent from the tables list.
C37_UnopenableTableSkipped ==
    (tb.stage = "opened" /\ tb.r.err # "nil") => (tb.r.err # "panic" /\ ~tb.listed)

(***************************************************************************)
(* Properties of the filter in point lookups.                              *)
(***************************************************************************)
\* C38: a point lookup consults the filter first: when the table has a
\* filter and MayContain(key) is false, SSTableReader.Get returns not found
\* without searching the index and without reading any data block.
C38_FilterConsultedFirst ==
    (tb.got.called /\ tb.r.hasFilter /\ ~ReaderMayContain(tb.r, tb.got.key)) =>
        /\ tb.got.res = NotFoundInTable
        /\ ~ReaderGetTrace(tb.r, tb.got.key).indexSearched
        /\ ReaderGetTrace(tb.r, tb.got.key).blocksRead = 0

(***************************************************************************)
(* Properties of the index the table writer produces.                      *)
(***************************************************************************)
\* the entries held by the bytes of a data block from pos, in the layout
\* [keyLen:4][valueLen:4][deleted:1][key][value]
RECURSIVE DecodeEntries(_, _)
DecodeEntries(data, pos) ==
    IF pos + 9 > Len(data) THEN <<>>
    ELSE LET keyLen == Uint32(Slice(data, pos, pos + 4))
             valueLen == Uint32(Slice(data, pos + 4, pos + 8))
             next == pos + 9 + keyLen + valueLen
         IN  <<[Key |-> Slice(data, pos + 9, pos + 9 + keyLen),
                Value |-> Slice(data, pos + 9 + keyLen, next),
                Deleted |-> data[pos + 9] = 1]>> \o DecodeEntries(data, next)

\* the entries of the blocks i.. of the index, block after block
RECURSIVE IndexedEntries(_, _, _)
IndexedEntries(file, index, i) ==
    IF i > Len(index) THEN <<>>
    ELSE DecodeEntries(ReadBlock(file, index[i]).dataPart, 0)
           \o IndexedEntries(file, index, i + 1)

\* the index of the file as OpenSSTable decodes it, and the index offset its
\* footer holds, satisfy the writer's invariant for the entries added
WriterIndexInvariant(file, index, indexOffset, added) ==
    /\ index # <<>> => index[1].Offset = 0
    /\ \A i \in 1..(Len(index) - 1) : index[i + 1].Offset = index[i].Offset + index[i].Size
    /\ indexOffset = IF index = <<>> THEN 0
                     ELSE index[Len(index)].Offset + index[Len(index)].Size
    /\ \A i \in 1..Len(index) :
          /\ index[i].Size > 4
          /\ ReadBlock(file, index[i]).ok
          /\ DecodeEntries(ReadBlock(file, index[i]).dataPart, 0) # <<>>
          /\ index[i].FirstKey = DecodeEntries(ReadBlock(file, index[i]).dataPart, 0)[1].Key
          /\ i < Len(index) => index[i].Size - 4 >= BlockSize
    /\ \A i \in 1..(Len(index) - 1) : Compare(index[i].FirstKey, index[i + 1].FirstKey) < 0
    /\ IndexedEntries(file, index, 1) = added

\* C39: in every table produced by SSTableWriter, the index has one entry
\* per data block, the first block starts at offset 0, each next block
\* starts at the previous block's offset plus its size (the size includes
\* the 4-byte CRC), the index starts right after the last block, the first
\* keys are strictly ascending for strictly ascending input, and every block
\* except possibly the last holds at least the BlockSize target of entry
\* bytes.
C39_WriterIndexInvariant ==
    (tb.stage = "final" /\ tb.damage = "none") =>
        /\ OpenSSTable(tb.file).err = "nil"
        /\ WriterIndexInvariant(tb.file, OpenSSTable(tb.file).index,
                                Uint64(Slice(tb.file, Len(tb.file) - 40, Len(tb.file) - 32)),
                                tb.added)

\* a finished table of two data blocks, the first with two entries and the
\* last below the target size
C39_Witness ==
    /\ tb.stage = "final" /\ tb.damage = "none"
    /\ Len(tb.added) = 3
    /\ Len(OpenSSTable(tb.file).index) = 2
    /\ OpenSSTable(tb.file).index[2].Size - 4 < BlockSize

====
